---- MODULE Spec2Model ----
(***************************************************************************)
(* Batch execution engine of the Sora 2 batch tool: the counting           *)
(* Semaphore, the retry loop of executeJobWithRetry and the coordinator    *)
(* BatchManager.executeBatch (src/src/utils/batch-manager.ts), together    *)
(* with resolveOutputPath (src/src/utils/path.ts).                         *)
(*                                                                         *)
(* The engine runs on one event loop.  A step of the model is one turn of  *)
(* that loop: a promise continuation (microtask) or a timer / I/O          *)
(* completion (macrotask).  Macrotasks run only when no microtask is       *)
(* pending, as in the JavaScript run-time.                                 *)
(*                                                                         *)
(* Specifications:                                                         *)
(*   Spec, FairSpec  executeBatch with its job tasks and the file system   *)
(*   RetrySpec       one executeJobWithRetry call against generateVideo    *)
(*   SemSpec         the Semaphore with callers of its own                 *)
(*   CostSpec        calculateTotalCost and estimateBatchCost              *)
(*   ResolveSpec     the parameters executeJobWithRetry, calculateTotalCost *)
(*                   and estimateBatchCost resolve for the jobs of a batch  *)
(*   PollSpec        one pollVideoResult call (src/src/utils/video.ts)     *)
(*   PollFairSpec    the same when every request is answered               *)
(*   SettlingSpec    executeBatch when every call a job task awaits settles *)
(*   GenSpec         one generateVideo or remixVideo call                  *)
(*                   (src/src/tools/remix.ts)                              *)
(*   CliSpec         the batch command: parseArgs, validateBatchConfig,    *)
(*                   mergeBatchConfig and main, running executeBatch       *)
(***************************************************************************)
EXTENDS Integers, Sequences, FiniteSets, TLC

\* ------------------------------------------------------------------ bounds
MaxJobs == 2
MaxCap == 2
MaxRetriesCfg == 1
\* Under the fair specification: the most executor calls a batch can make,
\* jobs x (max_retries + 1).
MaxLiveCalls == 3
\* The semaphore by itself: its callers and their acquire() calls in all.
MaxCallers == 3
MaxRequests == 4
\* The cost functions by themselves: the jobs of a configuration.
MaxCostJobs == 2
MaxEstimateCalls == 2
MaxPollAttempts == 3

\* --------------------------------------------------------------- constants
DefaultMaxConcurrent == 2
DefaultRetryMaxRetries == 2
DefaultRetryDelayMs == 1000
MinRetryDelay == 100

\* An optional value is a sequence of length 0 (undefined) or 1.
Undefined == <<>>
Some(v) == <<v>>

\* JavaScript `a || d` on an optional number: undefined and 0 are falsy.
OrElse(opt, d) == IF opt = Undefined \/ opt[1] = 0 THEN d ELSE opt[1]

\* JavaScript `a || d` on an optional string: undefined and '' are falsy.
OrElseString(opt, d) == IF opt = Undefined \/ opt[1] = "" THEN d ELSE opt[1]

\* JavaScript `a ?? d` on an optional value: only undefined is replaced.
Coalesce(opt, d) == IF opt = Undefined THEN d ELSE opt[1]

\* ----------------------------------------------------------------- strings
\* Strings that the code inspects character by character are sequences of
\* one-character strings.
ToLowerChar(c) ==
  CASE c = "A" -> "a" [] c = "B" -> "b" [] c = "C" -> "c" [] c = "D" -> "d"
    [] c = "E" -> "e" [] c = "F" -> "f" [] c = "G" -> "g" [] c = "H" -> "h"
    [] c = "I" -> "i" [] c = "J" -> "j" [] c = "K" -> "k" [] c = "L" -> "l"
    [] c = "M" -> "m" [] c = "N" -> "n" [] c = "O" -> "o" [] c = "P" -> "p"
    [] c = "Q" -> "q" [] c = "R" -> "r" [] c = "S" -> "s" [] c = "T" -> "t"
    [] c = "U" -> "u" [] c = "V" -> "v" [] c = "W" -> "w" [] c = "X" -> "x"
    [] c = "Y" -> "y" [] c = "Z" -> "z"
    [] OTHER -> c

toLowerCase(s) == [k \in 1..Len(s) |-> ToLowerChar(s[k])]

startsWith(s, prefix) ==
  /\ Len(prefix) <= Len(s)
  /\ SubSeq(s, 1, Len(prefix)) = prefix

includes(s, sub) ==
  \E k \in 0..(Len(s) - Len(sub)) : SubSeq(s, k + 1, k + Len(sub)) = sub

\* The messages an executor attempt can fail with, and their characters.
ErrorMessages == {"TIMEOUT", "Invalid prompt"}

MessageChars(m) == [k \in 1..Len(m) |-> SubSeq(m, k, k)]

\* BATCH_DEFAULTS.retry_on_errors
DefaultRetryOnErrors ==
  { <<"r","a","t","e","_","l","i","m","i","t">>,
    <<"t","i","m","e","o","u","t">>,
    <<"4","2","9">>, <<"5","0","3">>, <<"5","0","0">> }

\* The match made without lower-casing either side.
shouldRetry_CaseSensitive(error, patterns) ==
  LET errorMessage == MessageChars(error)
  IN  \E pattern \in patterns : includes(errorMessage, pattern)

shouldRetry(error, patterns) ==
  LET errorMessage == toLowerCase(MessageChars(error))
  IN  \E pattern \in patterns : includes(errorMessage, toLowerCase(pattern))

\* ------------------------------------------------------------------- paths
OutputDir == <<"/","o">>
PathOutside == <<"/","t","/","a">>

isAbsolute(p) == Len(p) > 0 /\ p[1] = "/"

\* The segments of a path: the runs of characters between its slashes.
RECURSIVE SegmentsFrom(_, _, _, _)
SegmentsFrom(p, k, cur, acc) ==
  IF k > Len(p) THEN (IF cur = <<>> THEN acc ELSE Append(acc, cur))
  ELSE IF p[k] = "/"
  THEN SegmentsFrom(p, k + 1, <<>>, IF cur = <<>> THEN acc ELSE Append(acc, cur))
  ELSE SegmentsFrom(p, k + 1, Append(cur, p[k]), acc)

Segments(p) == SegmentsFrom(p, 1, <<>>, <<>>)

\* path.normalize on segments: "." is dropped, ".." takes back the segment
\* before it; at the root it is dropped, at the start of a relative path kept.
RECURSIVE NormalizeFrom(_, _, _, _)
NormalizeFrom(segs, k, acc, absolute) ==
  IF k > Len(segs) THEN acc
  ELSE IF segs[k] = <<".">> THEN NormalizeFrom(segs, k + 1, acc, absolute)
  ELSE IF segs[k] = <<".", ".">>
  THEN IF acc # <<>> /\ acc[Len(acc)] # <<".", ".">>
       THEN NormalizeFrom(segs, k + 1, SubSeq(acc, 1, Len(acc) - 1), absolute)
       ELSE IF absolute THEN NormalizeFrom(segs, k + 1, acc, absolute)
       ELSE NormalizeFrom(segs, k + 1, Append(acc, segs[k]), absolute)
  ELSE NormalizeFrom(segs, k + 1, Append(acc, segs[k]), absolute)

RECURSIVE JoinSegments(_, _)
JoinSegments(segs, k) ==
  IF k > Len(segs) THEN <<>>
  ELSE (IF k = 1 THEN <<>> ELSE <<"/">>) \o segs[k] \o JoinSegments(segs, k + 1)

\* path.join(a, b): the two joined by a slash, normalized.
pathJoin(a, b) ==
  LET segs == NormalizeFrom(Segments(a \o <<"/">> \o b), 1, <<>>, isAbsolute(a))
  IN  (IF isAbsolute(a) THEN <<"/">> ELSE <<>>) \o JoinSegments(segs, 1)

Digit(n) ==
  CASE n = 1 -> "1" [] n = 2 -> "2" [] n = 3 -> "3" [] n = 4 -> "4"
    [] n = 5 -> "5" [] OTHER -> "9"

PathError(index) ==
  <<"Job ", index + 1,
    ": absolute output_path must be within output_dir. Use --allow-any-path to override.">>

\* resolveOutputPath(job, index, outputDir, allowAnyPath); index is 0-based.
\* The result is the path, or the error the function throws.
resolveOutputPath(job, index, outputDir, allowAnyPath) ==
  IF job.output_path # Undefined
  THEN IF isAbsolute(job.output_path)
       THEN IF ~allowAnyPath /\ ~startsWith(job.output_path, outputDir)
            THEN [threw |-> TRUE, error |-> PathError(index)]
            ELSE [threw |-> FALSE, path |-> job.output_path]
       ELSE [threw |-> FALSE, path |-> pathJoin(outputDir, job.output_path)]
  ELSE [threw |-> FALSE,
        path |-> outputDir \o <<"/">>
                 \o <<"g","e","n","e","r","a","t","e","d","_">>
                 \o <<Digit(index + 1)>> \o <<".","m","p","4">>]

\* path.extname: where the extension of the last path segment starts, or
\* Len(p) + 1 when it has none (a leading dot starts no extension).
ExtStart(p) ==
  LET slashes == {k \in 1..Len(p) : p[k] = "/"}
      base == IF slashes = {} THEN 1
              ELSE (CHOOSE k \in slashes : \A j \in slashes : j <= k) + 1
      dots == {k \in (base + 1)..Len(p) : p[k] = "."}
  IN  IF dots = {} THEN Len(p) + 1
      ELSE CHOOSE k \in dots : \A j \in dots : j <= k

\* lines 54-59 of path.ts: `${baseName}_${counter}${ext}` in the same folder
WithCounter(p, counter) ==
  SubSeq(p, 1, ExtStart(p) - 1) \o <<"_", Digit(counter)>>
    \o SubSeq(p, ExtStart(p), Len(p))

\* generateUniqueFilePath(filePath) when the paths in `existing` exist: the
\* path itself if it is free, else the first free numbered sibling.
generateUniqueFilePath(filePath, existing) ==
  IF filePath \notin existing THEN filePath
  ELSE LET counter ==
             CHOOSE c \in 1..(Cardinality(existing) + 1) :
               /\ WithCounter(filePath, c) \notin existing
               /\ \A d \in 1..(c - 1) : WithCounter(filePath, d) \in existing
       IN  WithCounter(filePath, counter)

\* --------------------------------------------------------------- semaphore
\* acquire() that also takes a permit when none is left (`>=` for `>`).
SemAcquire_OffByOne(sem, i) ==
  IF sem.permits >= 0
  THEN [sem |-> [sem EXCEPT !.permits = @ - 1], granted |-> TRUE]
  ELSE [sem |-> [sem EXCEPT !.queue = Append(@, i)], granted |-> FALSE]

\* acquire() that grants a permit without counting it down.
SemAcquire_KeepsPermit(sem, i) ==
  IF sem.permits > 0
  THEN [sem |-> sem, granted |-> TRUE]
  ELSE [sem |-> [sem EXCEPT !.queue = Append(@, i)], granted |-> FALSE]

\* Semaphore.acquire() called by task i: the new semaphore and whether the
\* call returned at once.
SemAcquire(sem, i) ==
  IF sem.permits > 0
  THEN [sem |-> [sem EXCEPT !.permits = @ - 1], granted |-> TRUE]
  ELSE [sem |-> [sem EXCEPT !.queue = Append(@, i)], granted |-> FALSE]

\* release() that wakes the caller that began waiting last.
SemRelease_Lifo(sem) ==
  IF sem.queue # <<>>
  THEN [sem |-> [sem EXCEPT !.queue = SubSeq(@, 1, Len(@) - 1)],
        woken |-> {sem.queue[Len(sem.queue)]}]
  ELSE [sem |-> [sem EXCEPT !.permits = @ + 1], woken |-> {}]

\* release() that counts the permit up also when it wakes a caller.
SemRelease_AlwaysCounts(sem) ==
  IF sem.queue # <<>>
  THEN [sem |-> [sem EXCEPT !.queue = Tail(@), !.permits = @ + 1],
        woken |-> {Head(sem.queue)}]
  ELSE [sem |-> [sem EXCEPT !.permits = @ + 1], woken |-> {}]

\* release() that counts the permit up and wakes nobody.
SemRelease_WakesNobody(sem) ==
  [sem |-> [sem EXCEPT !.permits = @ + 1], woken |-> {}]

\* Semaphore.release(): the new semaphore and the callers it wakes.
SemRelease(sem) ==
  IF sem.queue # <<>>
  THEN [sem |-> [sem EXCEPT !.queue = Tail(@)], woken |-> {Head(sem.queue)}]
  ELSE [sem |-> [sem EXCEPT !.permits = @ + 1], woken |-> {}]

\* ------------------------------------------------------------------ report
CancelledBeforeStart == "Batch timed out before job started"
CancelledBySynthesis == "Batch timed out or cancelled"
TimeoutMessage == <<"Batch execution timed out">>

VARIABLE config  \* the BatchConfig handed to executeBatch

\* An outcome that carries the prompt of the first job, whatever its index.
Outcome_FirstPrompt(i, st, err) ==
  [index |-> i, prompt |-> config.jobs[1].prompt, status |-> st, error |-> err]

\* The BatchJobResult of job i (1-based) as the task or the synthesis loop
\* builds it: index, the job's prompt, status and error.
Outcome(i, st, err) ==
  [index |-> i, prompt |-> config.jobs[i].prompt, status |-> st, error |-> err]

ProcessedIndices(res) == {res[k].index : k \in 1..Len(res)}

\* The p-th smallest element of a finite set of numbers.
NthSmallest(S, p) == CHOOSE i \in S : Cardinality({j \in S : j < i}) = p - 1

\* line 177: the indices of 1..n without a recorded outcome.
MissingIndices(res, n) == {i \in 1..n : i \notin ProcessedIndices(res)}

\* The loop marking unfinished jobs `failed` instead of `cancelled`.
AppendCancelled_Failed(res, missing) ==
  res \o [p \in 1..Cardinality(missing) |->
            Outcome(NthSmallest(missing, p), "failed", CancelledBySynthesis)]

\* lines 176-185: the loop pushes a cancellation for every missing index, in
\* ascending order.
AppendCancelled(res, missing) ==
  res \o [p \in 1..Cardinality(missing) |->
            Outcome(NthSmallest(missing, p), "cancelled", CancelledBySynthesis)]

\* Synthesis that does not look at the recorded indices.
MarkRemaining_Unchecked(res, n) == AppendCancelled(res, 1..n)

\* Synthesis left out.
MarkRemaining_Skipped(res, n) == res

\* Synthesis that cancels every job of a timed-out batch, recorded or not.
MarkRemaining_Overwrite(res, n) ==
  IF Len(res) = n THEN res ELSE AppendCancelled(<<>>, 1..n)

\* lines 174-185
MarkRemaining(res, n) == AppendCancelled(res, MissingIndices(res, n))

\* results.sort((a, b) => a.index - b.index), a stable sort: the place of
\* element k is the number of elements that sort before it, itself included.
SortRank(res, k) ==
  Cardinality({j \in 1..Len(res) :
     \/ res[j].index < res[k].index
     \/ res[j].index = res[k].index /\ j <= k})

\* The array returned in the order in which the outcomes were pushed.
SortByIndex_Unsorted(res) == res

SortByIndex(res) ==
  [p \in 1..Len(res) |-> res[CHOOSE k \in 1..Len(res) : SortRank(res, k) = p]]

CountStatus(res, st) == Cardinality({k \in 1..Len(res) : res[k].status = st})

\* The object returned at lines 195-205; its `results` field is the shared
\* array itself (variable results), not a copy.
BuildReport(res, n) ==
  [total |-> n,
   succeeded |-> CountStatus(res, "completed"),
   failed |-> CountStatus(res, "failed"),
   cancelled |-> CountStatus(res, "cancelled")]

\* ------------------------------------------------------------------- state
VARIABLES
  options,     \* the BatchExecutionOptions handed to executeBatch
  mainPc,      \* position of executeBatch itself
  thrown,      \* the error executeBatch rejected with, if any
  timedOut,    \* the flag of line 111
  timerArmed,  \* the deadline timer of line 158 is still to fire
  semaphore,   \* [permits, queue]
  pc,          \* position of every job task
  attempt,     \* loop variable of executeJobWithRetry, per job
  calls,       \* number of executor calls started, per job
  results,     \* the shared results array
  allRejected, \* rejection of Promise.all(jobPromises), if any
  report,      \* the counts of the returned BatchResult, if returned
  uniquePath,  \* per job, the path of line 132 handed to executeJobWithRetry
  outputPath,  \* per job, the path its running executor call will write
  files        \* the paths that exist in the file system

\* One call of executeJobWithRetry taken by itself, against a remote service
\* whose answers are recorded.
VARIABLES
  retryPc,      \* position of the call
  retryAttempt, \* its loop variable `attempt`
  retryTrace,   \* what the remote did at every attempt made so far
  retryResult,  \* the BatchJobResult the call resolved with, if any
  retryClock,   \* Date.now(), in ms since the call
  retryStart,   \* its local jobStartTime
  retryWaits,   \* the arguments of the sleep() calls it made so far
  retryDuration \* the duration_ms of the result, if any

retryVars == <<retryPc, retryAttempt, retryTrace, retryResult, retryClock,
               retryStart, retryWaits, retryDuration>>

\* A Semaphore taken by itself, with callers that acquire and release at
\* any time.
VARIABLES
  limiter,   \* the Semaphore: [permits, queue]
  holder,    \* per caller: "idle", "waiting" or "holding"
  requested, \* the callers in the order of their acquire() calls
  granted    \* the callers in the order in which acquire() resolved for them

semVars == <<limiter, holder, requested, granted>>

\* The two cost functions of BatchManager taken by themselves.
VARIABLES
  costConfig,  \* the BatchConfig they are given
  costResults, \* the results array calculateTotalCost is given
  totalCost,   \* what calculateTotalCost returned, if called
  estimate     \* what estimateBatchCost returned, call by call

costVars == <<costConfig, costResults, totalCost, estimate>>

\* The batch command (main) and the process it runs in.
VARIABLES
  argv,     \* process.argv.slice(2)
  apiKey,   \* whether OPENAI_API_KEY is set
  file,     \* what the configuration file parses to, if it can be read
  cliPc,    \* position of main: "start", "loading", "executing", "exited"
  exitCode, \* the code process.exit was called with, if it was
  stdout,   \* what main printed with console.log, by kind
  stderr    \* the message main printed with console.error, if any

cliVars == <<argv, apiKey, file, cliPc, exitCode, stdout, stderr>>

\* executeJobWithRetry called for the jobs of costConfig, one after the other.
VARIABLES
  execCall \* per job called: the locals of lines 221-223 and the callee

\* One call of pollVideoResult taken by itself.
VARIABLES
  pollMax,     \* its argument maxAttempts
  pollPc,      \* "idle", "request" (a GET is in flight), "sleep", "settled"
  pollAttempt, \* its loop variable `attempt`
  pollTrace,   \* the answers to the status requests made so far
  pollOutcome  \* what the call returned or threw, if it settled

pollVars == <<pollMax, pollPc, pollAttempt, pollTrace, pollOutcome>>

\* One call of generateVideo or remixVideo taken by itself.
VARIABLES
  genPc,     \* position of the call, or how its promise settled
  genParams, \* the callee and the params object it was called with
  genTrace,  \* the stages the call has passed
  genVideoId, \* its local videoId, "" until the submission is accepted
  genResult  \* the VideoGenerationResult it resolved with, if any

genVars == <<genPc, genParams, genTrace, genVideoId, genResult>>

\* The state of the components that are exercised by themselves.
isolated == <<retryVars, semVars, costVars, cliVars, execCall, genVars, pollVars>>

fsVars == <<uniquePath, outputPath, files>>

batchVars == <<config, options, mainPc, thrown, timedOut, timerArmed,
               semaphore, pc, attempt, calls, results, allRejected, report,
               fsVars>>

vars == <<config, options, mainPc, thrown, timedOut, timerArmed, semaphore,
          pc, attempt, calls, results, allRejected, report, fsVars,
          isolated>>

N == Len(config.jobs)
Jobs == 1..N

maxConcurrent == OrElse(config.max_concurrent, DefaultMaxConcurrent)

retryPolicy ==
  [maxRetries |->
     IF config.retry_policy = Undefined THEN DefaultRetryMaxRetries
     ELSE Coalesce(config.retry_policy[1].max_retries, DefaultRetryMaxRetries),
   retryPatterns |->
     IF config.retry_policy = Undefined THEN DefaultRetryOnErrors
     ELSE Coalesce(config.retry_policy[1].retry_on_errors, DefaultRetryOnErrors)]

notRetry == <<batchVars, semVars, costVars, cliVars, execCall, genVars, pollVars>>
notSem == <<batchVars, retryVars, costVars, cliVars, execCall, genVars, pollVars>>
notCost == <<batchVars, retryVars, semVars, cliVars, execCall, genVars, pollVars>>

\* -------------------------------------------------------------------- init
JobSpecs == {[output_path |-> p] : p \in {Undefined, PathOutside}}

RetryPolicies ==
  {Undefined} \cup
  {Some([max_retries |-> Some(k), retry_on_errors |-> Undefined,
         retry_delay_ms |-> Undefined]) :
     k \in 0..MaxRetriesCfg}

\* Job i of a batch has a prompt of its own.
JobPrompt(i) == Some("prompt " \o ToString(i))

JobLists ==
  UNION {{[i \in 1..n |-> [prompt |-> JobPrompt(i),
                           output_path |-> f[i].output_path]] :
            f \in [1..n -> JobSpecs]} : n \in 1..MaxJobs}

\* executeJobWithRetry has not been called.
RetryIdle ==
  /\ retryPc = "idle"
  /\ retryAttempt = 0
  /\ retryTrace = <<>>
  /\ retryResult = <<>>
  /\ retryClock = 0
  /\ retryStart = 0
  /\ retryWaits = <<>>
  /\ retryDuration = Undefined

Callers == 1..MaxCallers

\* No caller has used the semaphore.
SemIdle ==
  /\ holder = [c \in Callers |-> "idle"]
  /\ requested = <<>>
  /\ granted = <<>>

\* No cost function has been called.
CostIdle ==
  /\ totalCost = Undefined
  /\ estimate = Undefined

\* main has not run.
CliIdle ==
  /\ cliPc = "start"
  /\ exitCode = Undefined
  /\ stdout = <<>>
  /\ stderr = Undefined

\* Neither generateVideo nor remixVideo has been called.
GenIdle ==
  /\ genPc = "idle"
  /\ genParams = Undefined
  /\ genTrace = <<>>
  /\ genVideoId = ""
  /\ genResult = Undefined

\* pollVideoResult has not been called.
PollIdle ==
  /\ pollPc = "idle"
  /\ pollAttempt = 0
  /\ pollTrace = <<>>
  /\ pollOutcome = Undefined

\* The batch command is not part of the run.
NoCli ==
  /\ argv = <<>>
  /\ apiKey = TRUE
  /\ file = Undefined
  /\ CliIdle

\* executeBatch has not been called.
BatchIdle ==
  /\ mainPc = "idle"
  /\ thrown = <<>>
  /\ timedOut = FALSE
  /\ timerArmed = FALSE
  /\ semaphore = [permits |-> 0, queue |-> <<>>]
  /\ pc = [i \in 1..Len(config.jobs) |-> "unstarted"]
  /\ attempt = [i \in 1..Len(config.jobs) |-> 0]
  /\ calls = [i \in 1..Len(config.jobs) |-> 0]
  /\ results = <<>>
  /\ allRejected = <<>>
  /\ report = <<>>
  /\ uniquePath = [i \in 1..Len(config.jobs) |-> Undefined]
  /\ outputPath = [i \in 1..Len(config.jobs) |-> Undefined]
  /\ files = {}

Init ==
  /\ config \in [jobs : JobLists,
                 max_concurrent : {Undefined} \cup {Some(k) : k \in 1..MaxCap},
                 retry_policy : RetryPolicies]
  /\ options \in [allowAnyPath : BOOLEAN]
  /\ BatchIdle
  /\ RetryIdle
  /\ limiter = [permits |-> 0, queue |-> <<>>]
  /\ SemIdle
  /\ costConfig = Undefined
  /\ costResults = <<>>
  /\ CostIdle
  /\ NoCli
  /\ execCall = <<>>
  /\ GenIdle
  /\ pollMax = 1
  /\ PollIdle

\* ----------------------------------------------------------------- helpers
\* A promise continuation is queued: a task was granted a permit and has not
\* resumed yet, or Promise.all has settled and executeBatch has not resumed.
AllDone == \A i \in Jobs : pc[i] = "done"

MicrotaskPending ==
  \/ \E i \in Jobs : pc[i] = "admitted"
  \/ mainPc = "racing" /\ (AllDone \/ allRejected # <<>>)

\* What one executor call (generateVideo / remixVideo) can resolve to.
ExecResults ==
  {[success |-> TRUE, error |-> ""]} \cup
  {[success |-> FALSE, error |-> m] : m \in ErrorMessages}

\* line 260: new Error(result.error || 'Unknown error')
ErrorOf(result) == IF result.error = "" THEN "Unknown error" ELSE result.error

\* The loop giving up one attempt early (`<` for `<=`).
LoopContinues_Strict(att, maxRetries) == att < maxRetries

\* line 225: the loop condition of executeJobWithRetry
LoopContinues(att, maxRetries) == att <= maxRetries

\* The attempt counter starting over on every retry.
NextAttempt_Reset(att) == 0

\* line 225: attempt++ when the loop goes round (after `continue`)
NextAttempt(att) == att + 1

\* The catch comparing with a message the timer never rejects with.
CatchOutcome_WrongMessage(err) ==
  IF err = <<"Batch timed out">> THEN "grace" ELSE "thrown"

\* lines 164-171: what the catch does with the error the race rejected with
CatchOutcome(err) == IF err = TimeoutMessage THEN "grace" ELSE "thrown"

\* The messages the executor calls of a batch fail with, and those of them
\* that the default triggers match (shouldRetry worked out once for each).
BatchErrors == {ErrorOf(r) : r \in ExecResults}
RetriedByDefault == {m \in BatchErrors : shouldRetry(m, DefaultRetryOnErrors)}

\* line 278: the condition under which a failed attempt is repeated
RetryAllowed(att, err, policy) ==
  /\ att < policy.maxRetries
  /\ IF policy.retryPatterns = DefaultRetryOnErrors /\ err \in BatchErrors
     THEN err \in RetriedByDefault
     ELSE shouldRetry(err, policy.retryPatterns)

\* generateVideo, lines 371-376: the executor makes the path it was given
\* unique once more before it submits; that is the file it writes.
ExecutorPath(path, existing) == generateUniqueFilePath(path, existing)

\* A task that releases after results.push instead of in a finally block: a
\* task that ends by a thrown error keeps its permit.
ReleaseBy_OnlyOnReturn(i, endPc) ==
  IF endPc = "rejected"
  THEN /\ pc' = [pc EXCEPT ![i] = endPc]
       /\ UNCHANGED semaphore
  ELSE LET r == SemRelease(semaphore)
       IN  /\ semaphore' = r.sem
           /\ pc' = [j \in Jobs |->
                       IF j = i THEN endPc
                       ELSE IF j \in r.woken THEN "admitted" ELSE pc[j]]

\* line 146: the finally block of a job task that ends in position endPc.
ReleaseBy(i, endPc) ==
  LET r == SemRelease(semaphore)
  IN  /\ semaphore' = r.sem
      /\ pc' = [j \in Jobs |->
                  IF j = i THEN endPc
                  ELSE IF j \in r.woken THEN "admitted" ELSE pc[j]]

\* lines 174-205: synthesis, sort and the returned object.
Finalize ==
  /\ results' = SortByIndex(MarkRemaining(results, N))
  /\ report' = Some(BuildReport(results', N))
  /\ mainPc' = "returned"

\* lines 114-151: the launch loop; every task runs up to its acquire().
RECURSIVE LaunchFrom(_, _, _)
LaunchFrom(i, sem, pcs) ==
  IF i > N THEN [sem |-> sem, pc |-> pcs]
  ELSE LET a == SemAcquire(sem, i)
       IN  LaunchFrom(i + 1, a.sem,
             [pcs EXCEPT ![i] = IF a.granted THEN "admitted" ELSE "waiting"])

\* ----------------------------------------------------------------- actions
\* executeBatch up to the await of line 155.
ExecuteBatchStart ==
  /\ mainPc = "idle"
  /\ LET l == LaunchFrom(1, [permits |-> maxConcurrent, queue |-> <<>>], pc)
     IN  /\ semaphore' = l.sem
         /\ pc' = l.pc
  /\ mainPc' = "racing"
  /\ timerArmed' = TRUE
  /\ UNCHANGED <<isolated, fsVars, config, options, thrown, timedOut, attempt, calls, results,
                 allRejected, report>>

\* lines 121-129: the task was admitted with the flag raised.
ResumeCancelled(i) ==
  /\ results' = Append(results, Outcome(i, "cancelled", CancelledBeforeStart))
  /\ ReleaseBy(i, "done")
  /\ UNCHANGED allRejected

\* lines 131-132: the task resolves its output path and goes on, or throws.
ResumeRun(i) ==
  LET p == resolveOutputPath(config.jobs[i], i - 1, OutputDir,
                             options.allowAnyPath)
  IN  IF p.threw
      THEN /\ ReleaseBy(i, "rejected")
           /\ allRejected' = IF allRejected = <<>> THEN p.error ELSE allRejected
           /\ UNCHANGED results
      ELSE /\ pc' = [pc EXCEPT ![i] = "uniquing"]
           /\ UNCHANGED <<semaphore, results, allRejected>>

\* A task that does not look at the flag after its acquire().
Resume_NoFlagCheck(i) ==
  /\ pc[i] = "admitted"
  /\ ResumeRun(i)
  /\ UNCHANGED <<isolated, fsVars, config, options, mainPc, thrown, timedOut, timerArmed,
                 attempt, calls, report>>

\* A job task resumes after await semaphore.acquire() (lines 119-132).
Resume(i) ==
  /\ pc[i] = "admitted"
  /\ IF timedOut THEN ResumeCancelled(i) ELSE ResumeRun(i)
  /\ UNCHANGED <<isolated, fsVars, config, options, mainPc, thrown, timedOut, timerArmed,
                 attempt, calls, report>>

\* generateUniqueFilePath settles; executeJobWithRetry starts attempt 0
\* (lines 132-134, 220-256).
UniquePathDone(i) ==
  /\ pc[i] = "uniquing"
  /\ ~MicrotaskPending
  /\ attempt' = [attempt EXCEPT ![i] = 0]
  /\ uniquePath' =
       [uniquePath EXCEPT ![i] =
          generateUniqueFilePath(
            resolveOutputPath(config.jobs[i], i - 1, OutputDir,
                              options.allowAnyPath).path,
            files)]
  /\ IF LoopContinues(0, retryPolicy.maxRetries)
     THEN /\ calls' = [calls EXCEPT ![i] = @ + 1]
          /\ pc' = [pc EXCEPT ![i] = "executing"]
          /\ outputPath' =
               [outputPath EXCEPT ![i] = ExecutorPath(uniquePath'[i], files)]
          /\ UNCHANGED <<semaphore, results>>
     ELSE /\ results' = Append(results,
                          Outcome(i, "failed", "Max retries exceeded"))
          /\ ReleaseBy(i, "done")
          /\ UNCHANGED <<calls, outputPath>>
  /\ UNCHANGED <<isolated, files, config, options, mainPc, thrown, timedOut, timerArmed,
                 allRejected, report>>

\* The executor call of job i settles with r (lines 259-295, 144-147).
ExecutorSettle(i, r) ==
  /\ pc[i] = "executing"
  /\ ~MicrotaskPending
  /\ IF r.success
     THEN /\ results' = Append(results, Outcome(i, "completed", ""))
          /\ files' = files \cup {outputPath[i]}
          /\ ReleaseBy(i, "done")
     ELSE IF RetryAllowed(attempt[i], ErrorOf(r), retryPolicy)
     THEN /\ pc' = [pc EXCEPT ![i] = "sleeping"]
          /\ UNCHANGED <<semaphore, results, files>>
     ELSE /\ results' = Append(results, Outcome(i, "failed", ErrorOf(r)))
          /\ ReleaseBy(i, "done")
          /\ UNCHANGED files
  /\ UNCHANGED <<isolated, uniquePath, outputPath, config, options, mainPc, thrown, timedOut, timerArmed,
                 attempt, calls, allRejected, report>>

\* sleep(retryDelay) ends; the loop goes on with the next attempt
\* (lines 280-281, 225).
RetryDelayEnd(i) ==
  /\ pc[i] = "sleeping"
  /\ ~MicrotaskPending
  /\ attempt' = [attempt EXCEPT ![i] = NextAttempt(@)]
  /\ IF LoopContinues(attempt'[i], retryPolicy.maxRetries)
     THEN /\ calls' = [calls EXCEPT ![i] = @ + 1]
          /\ pc' = [pc EXCEPT ![i] = "executing"]
          /\ outputPath' =
               [outputPath EXCEPT ![i] = ExecutorPath(uniquePath[i], files)]
          /\ UNCHANGED <<semaphore, results>>
     ELSE /\ results' = Append(results,
                          Outcome(i, "failed", "Max retries exceeded"))
          /\ ReleaseBy(i, "done")
          /\ UNCHANGED <<calls, outputPath>>
  /\ UNCHANGED <<isolated, uniquePath, files, config, options, mainPc, thrown, timedOut, timerArmed,
                 allRejected, report>>

\* A timer whose rejection reaches the catch also after the race was won by
\* Promise.all.
TimerFire_AfterRaceToo ==
  /\ timerArmed
  /\ ~MicrotaskPending
  /\ timerArmed' = FALSE
  /\ timedOut' = TRUE
  /\ mainPc' = CatchOutcome(TimeoutMessage)
  /\ thrown' = IF mainPc' = "thrown" THEN TimeoutMessage ELSE thrown
  /\ UNCHANGED <<isolated, fsVars, config, options, semaphore, pc, attempt, calls, results,
                 allRejected, report>>

\* The deadline timer fires (lines 158-161, 164-168).
TimerFire ==
  /\ timerArmed
  /\ ~MicrotaskPending
  /\ timerArmed' = FALSE
  /\ timedOut' = TRUE
  /\ IF mainPc = "racing"
     THEN /\ mainPc' = CatchOutcome(TimeoutMessage)
          /\ thrown' = IF mainPc' = "thrown" THEN TimeoutMessage ELSE thrown
     ELSE UNCHANGED <<mainPc, thrown>>
  /\ UNCHANGED <<isolated, fsVars, config, options, semaphore, pc, attempt, calls, results,
                 allRejected, report>>

\* sleep(5000) ends and executeBatch finalizes (lines 168, 174-205).
GraceEnd ==
  /\ mainPc = "grace"
  /\ ~MicrotaskPending
  /\ Finalize
  /\ UNCHANGED <<isolated, fsVars, config, options, thrown, timedOut, timerArmed, semaphore,
                 pc, attempt, calls, allRejected>>

\* Promise.all resolved first: executeBatch finalizes (lines 155-156, 174-205).
RaceResolve ==
  /\ mainPc = "racing"
  /\ AllDone
  /\ Finalize
  /\ UNCHANGED <<isolated, fsVars, config, options, thrown, timedOut, timerArmed, semaphore,
                 pc, attempt, calls, allRejected>>

\* Promise.all rejected first: the catch of lines 164-171.
RaceReject ==
  /\ mainPc = "racing"
  /\ allRejected # <<>>
  /\ mainPc' = CatchOutcome(allRejected)
  /\ thrown' = IF mainPc' = "thrown" THEN allRejected ELSE thrown
  /\ UNCHANGED <<isolated, fsVars, config, options, timedOut, timerArmed, semaphore, pc,
                 attempt, calls, results, allRejected, report>>

Next ==
  \/ ExecuteBatchStart
  \/ \E i \in Jobs : Resume(i)
  \/ \E i \in Jobs : UniquePathDone(i)
  \/ \E i \in Jobs : \E r \in ExecResults : ExecutorSettle(i, r)
  \/ \E i \in Jobs : RetryDelayEnd(i)
  \/ TimerFire
  \/ GraceEnd
  \/ RaceResolve
  \/ RaceReject

Spec == Init /\ [][Next]_vars

\* What the event loop runs by itself: queued continuations and timers of
\* executeBatch.  An executor call, a file-system call or a retry delay of a
\* job need not ever settle.
LoopStep ==
  \/ ExecuteBatchStart
  \/ \E i \in Jobs : Resume(i)
  \/ TimerFire
  \/ GraceEnd
  \/ RaceResolve
  \/ RaceReject

\* The batches of the fair specification.
LiveInit ==
  /\ Init
  /\ Len(config.jobs) * (retryPolicy.maxRetries + 1) <= MaxLiveCalls

FairSpec == LiveInit /\ [][Next]_vars /\ WF_vars(LoopStep)

\* What a job task waits for besides the event loop: the file-system call
\* of line 132, its executor call and its retry delay.
TaskStep ==
  \/ \E i \in Jobs : UniquePathDone(i)
  \/ \E i \in Jobs : \E r \in ExecResults : ExecutorSettle(i, r)
  \/ \E i \in Jobs : RetryDelayEnd(i)

\* The batches in which every executor call, file-system call and retry
\* delay settles.
SettlingSpec ==
  LiveInit /\ [][Next]_vars /\ WF_vars(LoopStep) /\ WF_vars(TaskStep)

TypeOK ==
  /\ mainPc \in {"idle", "racing", "grace", "returned", "thrown"}
  /\ timedOut \in BOOLEAN
  /\ timerArmed \in BOOLEAN
  /\ semaphore.permits \in Int
  /\ \A i \in Jobs : pc[i] \in {"unstarted", "waiting", "admitted", "uniquing",
                                "executing", "sleeping", "done", "rejected"}

\* ---------------------------------------------------------------- executor
\* What generateVideo does with the answers of the remote service.
DefaultPollInterval == 15000
DefaultMaxPollAttempts == 120

\* Math.round(a / b) for a >= 0 and b > 0
MathRound(a, b) == (2 * a + b) \div (2 * b)

\* The answers to the submission POST: status, whether the body parses as
\* JSON, its error.message ("" when absent) and the raw body text.
HttpResponse(st, js, msg, txt) ==
  [status |-> st, json |-> js, message |-> msg, text |-> txt]

SubmitResponses ==
  { HttpResponse(200, TRUE, "", ""),
    HttpResponse(429, TRUE, "Too many requests", ""),
    HttpResponse(503, FALSE, "", "Service Unavailable"),
    HttpResponse(500, TRUE, "TIMEOUT", ""),
    HttpResponse(400, TRUE, "Invalid prompt", ""),
    HttpResponse(400, TRUE, "Max 500 chars", "") }

\* What polling an accepted submission ends with.
PollEndings == {"completed", "failed", "exhausted"}

VideoIds == {"video_1", "video_2"}

\* One attempt as the remote service plays it.
RemoteBehaviours ==
  {[response |-> r, id |-> "", poll |-> "none"] :
     r \in {q \in SubmitResponses : q.status # 200}} \cup
  {[response |-> HttpResponse(200, TRUE, "", ""), id |-> v, poll |-> e] :
     v \in VideoIds, e \in PollEndings}

\* generateVideo, lines 460-485: the message of the error thrown for a
\* submission that was not accepted.
SubmitErrorMessage(response) ==
  LET base == "API error: " \o ToString(response.status)
      errorMessage ==
        IF response.json
        THEN IF response.message # "" THEN response.message ELSE base
        ELSE base \o " - " \o response.text
  IN  IF response.status = 401
      THEN "Authentication failed. Please check your OPENAI_API_KEY."
      ELSE IF response.status = 403
      THEN "Access denied. Sora 2 requires Tier 2+ API access ($10+ credit purchase)."
      ELSE IF response.status = 429
      THEN "Rate limit exceeded. Please wait and try again."
      ELSE errorMessage

\* pollVideoResult, lines 127-129: the error after the last poll attempt.
PollTimeoutMessage(maxAttempts, pollInterval) ==
  "Video generation timed out after " \o ToString(maxAttempts)
    \o " attempts ("
    \o ToString(MathRound(maxAttempts * pollInterval, 60000))
    \o " minutes)"

\* pollVideoResult, lines 108-112, for a video without failure_reason.
PollFailedMessage(status) == "Video generation failed: " \o status

VideoResult(ok, err, id) == [success |-> ok, error |-> err, video_id |-> id]

\* generateVideo: every error becomes { success: false, error: message }.
generateVideo(remote, pollInterval, maxPollAttempts) ==
  IF remote.response.status # 200
  THEN VideoResult(FALSE, SubmitErrorMessage(remote.response), "")
  ELSE IF remote.poll = "exhausted"
  THEN VideoResult(FALSE,
                   PollTimeoutMessage(maxPollAttempts, pollInterval), "")
  ELSE IF remote.poll = "failed"
  THEN VideoResult(FALSE, PollFailedMessage("failed"), "")
  ELSE VideoResult(TRUE, "", remote.id)

\* ----------------------------------------------------------- retry wrapper
\* lines 263-274 and 286-294: the results executeJobWithRetry resolves with.
CompletedResult(index, result) ==
  [index |-> index + 1, status |-> "completed", error |-> "",
   video_id |-> result.video_id]

FailedResult(index, message) ==
  [index |-> index + 1, status |-> "failed", error |-> message,
   video_id |-> ""]

\* The result of attempt k of the call.
AttemptResult(k) ==
  generateVideo(retryTrace[k], DefaultPollInterval, DefaultMaxPollAttempts)

\* Retry policies with a trigger list of their own.
CustomRetryOnErrors == { <<"R","a","t","e"," ","L","i","m","i","t">> }

RetryPoliciesAlone ==
  RetryPolicies \cup
  {Some([max_retries |-> Some(k), retry_on_errors |-> Some(CustomRetryOnErrors),
         retry_delay_ms |-> Some(MinRetryDelay)]) :
     k \in 0..MaxRetriesCfg}

RetryInit ==
  /\ config \in [jobs : {<<[output_path |-> Undefined]>>},
                 max_concurrent : {Undefined},
                 retry_policy : RetryPoliciesAlone]
  /\ options = [allowAnyPath |-> FALSE]
  /\ BatchIdle
  /\ RetryIdle
  /\ limiter = [permits |-> 0, queue |-> <<>>]
  /\ SemIdle
  /\ costConfig = Undefined
  /\ costResults = <<>>
  /\ CostIdle
  /\ NoCli
  /\ execCall = <<>>
  /\ GenIdle
  /\ pollMax = 1
  /\ PollIdle

\* line 102: the delay between two attempts
retryDelay ==
  IF config.retry_policy = Undefined THEN DefaultRetryDelayMs
  ELSE Coalesce(config.retry_policy[1].retry_delay_ms, DefaultRetryDelayMs)

\* How long an executor call takes, and how late a timer fires, in ms.
ExecutorDurations == {0, 250}
TimerLateness == {0, 3}

\* A jobStartTime that is taken anew in every round of the loop.
JobStartInRound_PerAttempt(start, now) == now

\* line 220: jobStartTime is taken once, before the loop; a round of the
\* loop that starts at `now` leaves it as it is.
JobStartInRound(start, now) == start

\* executeJobWithRetry is called for job 0 (lines 220-256).
RetryCall ==
  /\ retryPc = "idle"
  /\ retryAttempt' = 0
  /\ retryStart' = retryClock
  /\ IF LoopContinues(0, retryPolicy.maxRetries)
     THEN /\ retryPc' = "executing"
          /\ UNCHANGED <<retryResult, retryDuration>>
     ELSE /\ retryPc' = "returned"
          /\ retryResult' = Some(FailedResult(0, "Max retries exceeded"))
          /\ retryDuration' = Some(retryClock - retryStart')
  /\ UNCHANGED <<retryTrace, retryClock, retryWaits, notRetry>>

\* The executor call of the current attempt settles after `took` ms as the
\* remote plays it (lines 259-295).
RetrySettle(remote, took) ==
  /\ retryPc = "executing"
  /\ retryTrace' = Append(retryTrace, remote)
  /\ retryClock' = retryClock + took
  /\ LET result == generateVideo(remote, DefaultPollInterval,
                                 DefaultMaxPollAttempts)
     IN  IF result.success
         THEN /\ retryPc' = "returned"
              /\ retryResult' = Some(CompletedResult(0, result))
              /\ retryDuration' = Some(retryClock' - retryStart)
              /\ UNCHANGED retryWaits
         ELSE IF RetryAllowed(retryAttempt, ErrorOf(result), retryPolicy)
         THEN /\ retryPc' = "sleeping"
              /\ retryWaits' = Append(retryWaits, retryDelay)
              /\ UNCHANGED <<retryResult, retryDuration>>
         ELSE /\ retryPc' = "returned"
              /\ retryResult' = Some(FailedResult(0, ErrorOf(result)))
              /\ retryDuration' = Some(retryClock' - retryStart)
              /\ UNCHANGED retryWaits
  /\ UNCHANGED <<retryAttempt, retryStart, notRetry>>

\* sleep(retryDelay) ends, `late` ms after the delay has passed, and the
\* loop goes round (lines 280-281, 225).
RetrySleepEnd(late) ==
  /\ retryPc = "sleeping"
  /\ retryAttempt' = NextAttempt(retryAttempt)
  /\ retryClock' = retryClock + retryWaits[Len(retryWaits)] + late
  /\ retryStart' = JobStartInRound(retryStart, retryClock')
  /\ IF LoopContinues(retryAttempt', retryPolicy.maxRetries)
     THEN /\ retryPc' = "executing"
          /\ UNCHANGED <<retryResult, retryDuration>>
     ELSE /\ retryPc' = "returned"
          /\ retryResult' = Some(FailedResult(0, "Max retries exceeded"))
          /\ retryDuration' = Some(retryClock' - retryStart')
  /\ UNCHANGED <<retryTrace, retryWaits, notRetry>>

RetryNext ==
  \/ RetryCall
  \/ \E remote \in RemoteBehaviours :
       \E took \in ExecutorDurations : RetrySettle(remote, took)
  \/ \E late \in TimerLateness : RetrySleepEnd(late)

RetrySpec == RetryInit /\ [][RetryNext]_vars

\* --------------------------------------------------- semaphore by itself
SemInit ==
  /\ config = [jobs |-> <<[output_path |-> Undefined]>>,
               max_concurrent |-> Undefined, retry_policy |-> Undefined]
  /\ options = [allowAnyPath |-> FALSE]
  /\ BatchIdle
  /\ RetryIdle
  /\ limiter \in {[permits |-> k, queue |-> <<>>] : k \in 1..MaxCap}
  /\ SemIdle
  /\ costConfig = Undefined
  /\ costResults = <<>>
  /\ CostIdle
  /\ NoCli
  /\ execCall = <<>>
  /\ GenIdle
  /\ pollMax = 1
  /\ PollIdle

\* Caller c calls acquire() (lines 40-48).
CallerAcquire(c) ==
  /\ holder[c] = "idle"
  /\ Len(requested) < MaxRequests
  /\ requested' = Append(requested, c)
  /\ LET a == SemAcquire(limiter, c)
     IN  /\ limiter' = a.sem
         /\ holder' = [holder EXCEPT ![c] = IF a.granted THEN "holding"
                                            ELSE "waiting"]
         /\ granted' = IF a.granted THEN Append(granted, c) ELSE granted
  /\ UNCHANGED notSem

\* Caller c, holding a permit, calls release() (lines 50-57).
CallerRelease(c) ==
  /\ holder[c] = "holding"
  /\ LET r == SemRelease(limiter)
     IN  /\ limiter' = r.sem
         /\ holder' = [d \in Callers |->
                         IF d = c THEN "idle"
                         ELSE IF d \in r.woken THEN "holding" ELSE holder[d]]
         /\ granted' = IF r.woken = {} THEN granted
                       ELSE Append(granted, CHOOSE d \in r.woken : TRUE)
  /\ UNCHANGED <<requested, notSem>>

SemNext ==
  \/ \E c \in Callers : CallerAcquire(c)
  \/ \E c \in Callers : CallerRelease(c)

SemSpec == SemInit /\ [][SemNext]_vars

\* -------------------------------------------------------------------- cost
\* Money is counted in thousandths of a dollar, so that the prices per
\* second (0.1, 0.3, 0.5) and the margins (x 0.9, x 1.2) are whole numbers;
\* the code computes the same products in double precision.
DEFAULT_MODEL == "sora-2"
DEFAULT_SIZE == "1280x720"
DEFAULT_SECONDS == 4

\* PRICING[model]; sora-2 has no '1024p' entry.
PRICING(model) ==
  IF model = "sora-2"
  THEN [p720 |-> 100, p1024 |-> Undefined, default |-> 100]
  ELSE [p720 |-> 300, p1024 |-> Some(500), default |-> 300]

calculateCost(model, seconds, size) ==
  LET pricing == PRICING(model)
      is720p == \/ includes(MessageChars(size), <<"7","2","0">>)
                \/ includes(MessageChars(size), <<"4","8","0">>)
      pricePerSecond == IF is720p THEN pricing.p720
                        ELSE OrElse(pricing.p1024, pricing.default)
  IN  pricePerSecond * seconds

\* lines 319-320 and 342-344: job value, else batch default, else global.
EffectiveModel(job, cfg) ==
  OrElseString(job.model, OrElseString(cfg.default_model, DEFAULT_MODEL))
EffectiveSize(job, cfg) ==
  OrElseString(job.size, OrElseString(cfg.default_size, DEFAULT_SIZE))
EffectiveSeconds(job, cfg) ==
  OrElse(job.seconds, OrElse(cfg.default_seconds, DEFAULT_SECONDS))

\* What one result adds to the total, priced by the seconds the job asked
\* for instead of the measured duration.
ResultCost_RequestedSeconds(result, cfg) ==
  IF result.status = "completed" /\ OrElse(result.video_duration, 0) # 0
  THEN LET job == cfg.jobs[result.index]
       IN  calculateCost(EffectiveModel(job, cfg),
                         EffectiveSeconds(job, cfg),
                         EffectiveSize(job, cfg))
  ELSE 0

\* lines 315-323: what one result adds to the total (result.index is
\* 1-based, sequences too).
ResultCost(result, cfg) ==
  IF result.status = "completed" /\ OrElse(result.video_duration, 0) # 0
  THEN LET job == cfg.jobs[result.index]
       IN  calculateCost(EffectiveModel(job, cfg), result.video_duration[1],
                         EffectiveSize(job, cfg))
  ELSE 0

\* lines 311-326: the loop, from result k on, with the total so far.
RECURSIVE TotalCostFrom(_, _, _, _)
TotalCostFrom(res, cfg, k, total) ==
  IF k > Len(res) THEN total
  ELSE TotalCostFrom(res, cfg, k + 1, total + ResultCost(res[k], cfg))

calculateTotalCost(res, cfg) == TotalCostFrom(res, cfg, 1, 0)

\* JavaScript truthiness of an optional string.
Truthy(opt) == opt # Undefined /\ opt[1] # ""

\* The kinds tested in the other order: image source before remix source.
JobType_ImageFirst(job) ==
  IF Truthy(job.input_reference) THEN "image_to_video"
  ELSE IF Truthy(job.remix_video_id) THEN "remix"
  ELSE "text_to_video"

\* lines 348-357: the kind a job is counted under.
JobType(job) ==
  IF Truthy(job.remix_video_id) THEN "remix"
  ELSE IF Truthy(job.input_reference) THEN "image_to_video"
  ELSE "text_to_video"

\* lines 342-346: the estimated cost of one job.
JobEstimate(job, cfg) ==
  calculateCost(EffectiveModel(job, cfg), EffectiveSeconds(job, cfg),
                EffectiveSize(job, cfg))

\* lines 341-358: the loop, from job k on, with the count and cost of the
\* jobs of one kind so far.
RECURSIVE TypeTotalsFrom(_, _, _, _)
TypeTotalsFrom(cfg, type, k, acc) ==
  IF k > Len(cfg.jobs) THEN acc
  ELSE TypeTotalsFrom(cfg, type, k + 1,
         IF JobType(cfg.jobs[k]) = type
         THEN [type |-> type, count |-> acc.count + 1,
               estimated_cost |-> acc.estimated_cost
                                    + JobEstimate(cfg.jobs[k], cfg)]
         ELSE acc)

TypeTotals(cfg, type) ==
  TypeTotalsFrom(cfg, type, 1,
                 [type |-> type, count |-> 0, estimated_cost |-> 0])

\* The upper margin taken as 10% instead of 20%.
EstimatedMax_TenPercent(totalEstimate) == (totalEstimate * 11) \div 10

\* lines 386-387: totalEstimate * 0.9 and totalEstimate * 1.2
EstimatedMin(totalEstimate) == (totalEstimate * 9) \div 10
EstimatedMax(totalEstimate) == (totalEstimate * 12) \div 10

HasJobs(item) == item.count > 0

estimateBatchCost(cfg) ==
  LET text == TypeTotals(cfg, "text_to_video")
      image == TypeTotals(cfg, "image_to_video")
      remix == TypeTotals(cfg, "remix")
      totalEstimate == text.estimated_cost + image.estimated_cost
                         + remix.estimated_cost
  IN  [total_jobs |-> Len(cfg.jobs),
       estimated_min |-> EstimatedMin(totalEstimate),
       estimated_max |-> EstimatedMax(totalEstimate),
       breakdown |-> SelectSeq(<<text, image, remix>>, HasJobs)]

\* The configurations and results the cost functions are given.
CostJob(model, size, seconds, image, remix) ==
  [model |-> model, size |-> size, seconds |-> seconds,
   input_reference |-> image, remix_video_id |-> remix]

CostJobSpecs ==
  { CostJob(Undefined, Undefined, Undefined, Undefined, Undefined),
    CostJob(Some("sora-2"), Some("1280x720"), Some(8), Undefined, Undefined),
    CostJob(Some("sora-2-pro"), Some("1920x1080"), Some(10), Undefined,
            Undefined),
    CostJob(Some("sora-2-pro"), Some("720x1280"), Undefined, Some("cat.png"),
            Undefined),
    CostJob(Undefined, Undefined, Undefined, Undefined, Some("video_1")),
    CostJob(Undefined, Undefined, Undefined, Some("cat.png"),
            Some("video_1")) }

CostDefaults ==
  { [default_model |-> Undefined, default_size |-> Undefined,
     default_seconds |-> Undefined],
    [default_model |-> Some("sora-2-pro"), default_size |-> Some("1080x1080"),
     default_seconds |-> Some(15)] }

CostConfigs ==
  {[jobs |-> js, default_model |-> d.default_model,
    default_size |-> d.default_size, default_seconds |-> d.default_seconds] :
     js \in UNION {[1..n -> CostJobSpecs] : n \in 1..MaxCostJobs},
     d \in CostDefaults}

\* What a job ended with: its status and the video duration it reports.
CostEndings ==
  { [status |-> "completed", video_duration |-> Some(4)],
    [status |-> "completed", video_duration |-> Some(12)],
    [status |-> "completed", video_duration |-> Undefined],
    [status |-> "failed", video_duration |-> Undefined],
    [status |-> "cancelled", video_duration |-> Undefined] }

\* The sorted results of a batch of n jobs, one per index.
CostResultsOf(n) ==
  {[i \in 1..n |-> [index |-> i, status |-> e[i].status,
                    video_duration |-> e[i].video_duration]] :
     e \in [1..n -> CostEndings]}

CostInit ==
  /\ config = [jobs |-> <<[output_path |-> Undefined]>>,
               max_concurrent |-> Undefined, retry_policy |-> Undefined]
  /\ options = [allowAnyPath |-> FALSE]
  /\ BatchIdle
  /\ RetryIdle
  /\ limiter = [permits |-> 0, queue |-> <<>>]
  /\ SemIdle
  /\ costConfig \in CostConfigs
  /\ costResults \in CostResultsOf(Len(costConfig.jobs))
  /\ CostIdle
  /\ NoCli
  /\ execCall = <<>>
  /\ GenIdle
  /\ pollMax = 1
  /\ PollIdle

\* executeBatch builds its report (line 204).
CallCalculateTotalCost ==
  /\ totalCost = Undefined
  /\ totalCost' = Some(calculateTotalCost(costResults, costConfig))
  /\ UNCHANGED <<costConfig, costResults, estimate, notCost>>

\* An estimator whose counters and sums live on from call to call.
CallEstimateBatchCost_Accumulating ==
  /\ Len(estimate) < MaxEstimateCalls
  /\ LET e == estimateBatchCost(costConfig)
         before == IF estimate = <<>> THEN 0
                   ELSE estimate[Len(estimate)].estimated_min
     IN  estimate' = Append(estimate,
                            [e EXCEPT !.estimated_min = @ + before])
  /\ UNCHANGED <<costConfig, costResults, totalCost, notCost>>

\* estimateBatchCost is called (once more) on the configuration; all it
\* writes are its own local variables.
CallEstimateBatchCost ==
  /\ Len(estimate) < MaxEstimateCalls
  /\ estimate' = Append(estimate, estimateBatchCost(costConfig))
  /\ UNCHANGED <<costConfig, costResults, totalCost, notCost>>

CostNext == CallCalculateTotalCost \/ CallEstimateBatchCost

CostSpec == CostInit /\ [][CostNext]_vars

\* ------------------------------------------------- parameter resolution
\* A wrapper that passes over the defaults of the batch.
ExecutorCall_OwnOrGlobal(job, cfg) ==
  [callee |-> IF Truthy(job.remix_video_id) THEN "remixVideo"
              ELSE "generateVideo",
   model |-> OrElseString(job.model, DEFAULT_MODEL),
   size |-> OrElseString(job.size, DEFAULT_SIZE),
   seconds |-> OrElse(job.seconds, DEFAULT_SECONDS)]

\* executeJobWithRetry, lines 221-257: the model, size and seconds it
\* resolves and the executor it calls.  generateVideo is handed the three;
\* remixVideo is handed none of them.
ExecutorCall(job, cfg) ==
  [callee |-> IF Truthy(job.remix_video_id) THEN "remixVideo"
              ELSE "generateVideo",
   model |-> OrElseString(job.model,
                          OrElseString(cfg.default_model, DEFAULT_MODEL)),
   size |-> OrElseString(job.size,
                         OrElseString(cfg.default_size, DEFAULT_SIZE)),
   seconds |-> OrElse(job.seconds,
                      OrElse(cfg.default_seconds, DEFAULT_SECONDS))]

\* A batch whose jobs all complete with a video of 4 seconds.
ResolveInit ==
  /\ config = [jobs |-> <<[output_path |-> Undefined]>>,
               max_concurrent |-> Undefined, retry_policy |-> Undefined]
  /\ options = [allowAnyPath |-> FALSE]
  /\ BatchIdle
  /\ RetryIdle
  /\ limiter = [permits |-> 0, queue |-> <<>>]
  /\ SemIdle
  /\ costConfig \in CostConfigs
  /\ costResults = [i \in 1..Len(costConfig.jobs) |->
                      [index |-> i, status |-> "completed",
                       video_duration |-> Some(4)]]
  /\ CostIdle
  /\ NoCli
  /\ execCall = <<>>
  /\ GenIdle
  /\ pollMax = 1
  /\ PollIdle

\* The task of the next job calls executeJobWithRetry.
CallExecuteJobWithRetry ==
  /\ Len(execCall) < Len(costConfig.jobs)
  /\ execCall' = Append(execCall,
                        ExecutorCall(costConfig.jobs[Len(execCall) + 1],
                                     costConfig))
  /\ UNCHANGED <<batchVars, retryVars, semVars, costVars, cliVars, genVars,
                 pollVars>>

ResolveNext ==
  \/ CallExecuteJobWithRetry
  \/ CallCalculateTotalCost
  \/ CallEstimateBatchCost

ResolveSpec == ResolveInit /\ [][ResolveNext]_vars

\* ---------------------------------------------------------------- polling
isCompleted(status) == status \in {"completed", "succeeded"}
isFailed(status) == status \in {"failed", "cancelled"}
isPending(status) ==
  status \in {"queued", "in_progress", "running", "preprocessing",
              "processing"}

\* The answers to GET /videos/{id}: the HTTP status and, for 200, the status
\* field of the body (without failure_reason or error); "unknown" is a status
\* the three predicates do not know.
PollAnswer(http, status) == [http |-> http, status |-> status]

PollAnswers ==
  { PollAnswer(200, "queued"), PollAnswer(200, "in_progress"),
    PollAnswer(200, "completed"), PollAnswer(200, "succeeded"),
    PollAnswer(200, "failed"), PollAnswer(200, "cancelled"),
    PollAnswer(200, "unknown"),
    PollAnswer(503, ""), PollAnswer(404, "") }

PollReturn(answer) == Some([threw |-> FALSE, value |-> answer.status])
PollThrow(message) == Some([threw |-> TRUE, value |-> message])

PollInit ==
  /\ config = [jobs |-> <<[output_path |-> Undefined]>>,
               max_concurrent |-> Undefined, retry_policy |-> Undefined]
  /\ options = [allowAnyPath |-> FALSE]
  /\ BatchIdle
  /\ RetryIdle
  /\ limiter = [permits |-> 0, queue |-> <<>>]
  /\ SemIdle
  /\ costConfig = Undefined
  /\ costResults = <<>>
  /\ CostIdle
  /\ NoCli
  /\ execCall = <<>>
  /\ GenIdle
  /\ pollMax \in 1..MaxPollAttempts
  /\ PollIdle

pollFrame == <<batchVars, retryVars, semVars, costVars, cliVars, execCall,
              genVars>>

\* pollVideoResult is called: the loop is entered and the first GET is sent.
PollStart ==
  /\ pollPc = "idle"
  /\ pollPc' = "request"
  /\ pollAttempt' = 1
  /\ UNCHANGED <<pollMax, pollTrace, pollOutcome, pollFrame>>

\* A loop that goes round once more than maxAttempts allows.
PollNextRound_OneMore ==
  IF pollAttempt <= pollMax
  THEN /\ pollPc' = "request"
       /\ pollAttempt' = pollAttempt + 1
       /\ UNCHANGED pollOutcome
  ELSE /\ pollPc' = "settled"
       /\ pollOutcome' = PollThrow(PollTimeoutMessage(pollMax,
                                                       DefaultPollInterval))
       /\ UNCHANGED pollAttempt

\* The end of one round of the loop without a sleep: the next GET is sent,
\* or the loop is left and the error of lines 127-129 is thrown.
PollNextRound ==
  IF pollAttempt + 1 <= pollMax
  THEN /\ pollPc' = "request"
       /\ pollAttempt' = pollAttempt + 1
       /\ UNCHANGED pollOutcome
  ELSE /\ pollPc' = "settled"
       /\ pollOutcome' = PollThrow(PollTimeoutMessage(pollMax,
                                                       DefaultPollInterval))
       /\ UNCHANGED pollAttempt

\* The catch of lines 119-125 for an error thrown inside the try.
PollCatch(message) ==
  IF pollAttempt = pollMax
  THEN /\ pollPc' = "settled"
       /\ pollOutcome' = PollThrow(message)
       /\ UNCHANGED pollAttempt
  ELSE /\ pollPc' = "sleep"
       /\ UNCHANGED <<pollAttempt, pollOutcome>>

\* lines 74-118: the GET is answered.
PollAnswered(answer) ==
  /\ pollPc = "request"
  /\ pollTrace' = Append(pollTrace, answer)
  /\ IF answer.http >= 500 /\ pollAttempt < pollMax
     THEN /\ pollPc' = "sleep"
          /\ UNCHANGED <<pollAttempt, pollOutcome>>
     ELSE IF answer.http # 200
     THEN PollCatch("API error: " \o ToString(answer.http) \o " - ")
     ELSE IF isCompleted(answer.status)
     THEN /\ pollPc' = "settled"
          /\ pollOutcome' = PollReturn(answer)
          /\ UNCHANGED pollAttempt
     ELSE IF isFailed(answer.status)
     THEN PollCatch(PollFailedMessage(answer.status))
     ELSE IF pollAttempt < pollMax /\ isPending(answer.status)
     THEN /\ pollPc' = "sleep"
          /\ UNCHANGED <<pollAttempt, pollOutcome>>
     ELSE PollNextRound
  /\ UNCHANGED <<pollMax, pollFrame>>

\* A sleep(pollInterval) of the loop ends.
PollSleepEnd ==
  /\ pollPc = "sleep"
  /\ PollNextRound
  /\ UNCHANGED <<pollMax, pollTrace, pollFrame>>

PollNext ==
  \/ PollStart
  \/ \E answer \in PollAnswers : PollAnswered(answer)
  \/ PollSleepEnd

PollSpec == PollInit /\ [][PollNext]_vars

\* The calls whose every GET is answered and whose every sleep ends.
PollFairSpec == PollSpec /\ WF_vars(PollNext)

\* --------------------------------------------------------- batch command
\* BATCH_LIMITS
MinJobs == 1
MaxJobsLimit == 100
MinConcurrent == 1
MaxConcurrentLimit == 5
MinRetry == 0
MaxRetry == 5

MODELS == {"sora-2", "sora-2-pro"}

SIZES == {"1920x1080", "1280x720", "1080x1920", "720x1280", "1080x1080",
          "480x480"}

DURATIONS(model) ==
  CASE model = "sora-2" -> {4, 8, 12}
    [] model = "sora-2-pro" -> {10, 15, 25}

isValidModel(model) == model \in MODELS
isValidSize(size) == size \in SIZES
isValidDuration(model, seconds) == seconds \in DURATIONS(model)

\* A JavaScript number that may be NaN.
NaN == [nan |-> TRUE, value |-> 0]
Num(n) == [nan |-> FALSE, value |-> n]

DigitValue(c) ==
  CASE c = "0" -> 0 [] c = "1" -> 1 [] c = "2" -> 2 [] c = "3" -> 3
    [] c = "4" -> 4 [] c = "5" -> 5 [] c = "6" -> 6 [] c = "7" -> 7
    [] c = "8" -> 8 [] c = "9" -> 9 [] OTHER -> -1

\* The value of the longest run of decimal digits of text from position k.
RECURSIVE DigitsFrom(_, _, _)
DigitsFrom(text, k, acc) ==
  IF k > Len(text) \/ DigitValue(SubSeq(text, k, k)) < 0 THEN acc
  ELSE DigitsFrom(text, k + 1, 10 * acc + DigitValue(SubSeq(text, k, k)))

\* parseInt(text, 10) of a text without leading white space: an optional
\* sign, then the leading digits; NaN when there is no digit.
parseInt(text) ==
  LET signed == Len(text) > 0 /\ SubSeq(text, 1, 1) \in {"-", "+"}
      first == IF signed THEN 2 ELSE 1
  IN  IF first > Len(text) \/ DigitValue(SubSeq(text, first, first)) < 0
      THEN NaN
      ELSE IF signed /\ SubSeq(text, 1, 1) = "-"
           THEN Num(0 - DigitsFrom(text, first, 0))
           ELSE Num(DigitsFrom(text, first, 0))

\* `a || b` where a is an optional number that may be NaN.
OrElseNum(opt, d) ==
  IF opt = Undefined \/ opt[1].nan \/ opt[1].value = 0 THEN d
  ELSE opt[1].value

\* parseArgs: the loop over the arguments from position i on.
NoArgs ==
  [configPath |-> Undefined, maxConcurrent |-> Undefined,
   estimateOnly |-> FALSE, allowAnyPath |-> FALSE, showHelp |-> FALSE,
   showVersion |-> FALSE, exit |-> Undefined, error |-> Undefined]

RECURSIVE ParseFrom(_, _, _)
ParseFrom(args, i, result) ==
  IF i > Len(args) THEN result
  ELSE LET arg == args[i]
       IN  CASE arg \in {"--help", "-h"} ->
                  ParseFrom(args, i + 1, [result EXCEPT !.showHelp = TRUE])
             [] arg \in {"--version", "-v"} ->
                  ParseFrom(args, i + 1, [result EXCEPT !.showVersion = TRUE])
             [] arg = "--max-concurrent" ->
                  ParseFrom(args, i + 2,
                    [result EXCEPT !.maxConcurrent =
                       Some(IF i + 1 > Len(args) THEN NaN
                            ELSE parseInt(args[i + 1]))])
             [] arg = "--estimate-only" ->
                  ParseFrom(args, i + 1, [result EXCEPT !.estimateOnly = TRUE])
             [] arg = "--allow-any-path" ->
                  ParseFrom(args, i + 1, [result EXCEPT !.allowAnyPath = TRUE])
             [] arg \in {"--output-dir", "--timeout", "--poll-interval",
                         "--max-poll-attempts"} ->
                  ParseFrom(args, i + 2, result)
             [] OTHER ->
                  IF startsWith(MessageChars(arg), <<"-">>)
                  THEN [result EXCEPT !.exit = Some(1),
                          !.error = <<"Unknown option: ", arg>>]
                  ELSE ParseFrom(args, i + 1,
                                 [result EXCEPT !.configPath = Some(arg)])

parseArgs(args) == ParseFrom(args, 1, NoArgs)

\* `!job.prompt || !job.prompt.trim()`
IsBlank(opt) ==
  opt = Undefined \/ \A k \in 1..Len(opt[1]) : SubSeq(opt[1], k, k) = " "

\* validateJobConfig, lines 160-188: the checks of the job's own fields;
\* the message of the error thrown, "" when none is.
JobFieldError(job, index) ==
  LET jobLabel == "Job " \o ToString(index + 1)
      model == OrElseString(job.model, DEFAULT_MODEL)
  IN  IF IsBlank(job.prompt)
      THEN jobLabel \o ": prompt is required and must be a non-empty string"
      ELSE IF job.model # Undefined /\ ~isValidModel(job.model[1])
      THEN jobLabel \o ": invalid model '" \o job.model[1]
             \o "'. Valid models: sora-2, sora-2-pro"
      ELSE IF job.size # Undefined /\ ~isValidSize(job.size[1])
      THEN jobLabel \o ": invalid size '" \o job.size[1]
             \o "'. Valid sizes: 1920x1080, 1280x720, 1080x1920, 720x1280, 1080x1080, 480x480"
      ELSE IF job.seconds # Undefined /\ ~isValidDuration(model, job.seconds[1])
      THEN jobLabel \o ": invalid seconds '" \o ToString(job.seconds[1])
             \o "' for model '" \o model \o "'. Valid durations: "
             \o (IF model = "sora-2" THEN "4, 8, 12" ELSE "10, 15, 25")
      ELSE ""

\* validateJobConfig, lines 190-208: the checks of the job's source.
JobSourceError(job, index) ==
  LET jobLabel == "Job " \o ToString(index + 1)
  IN  IF Truthy(job.remix_video_id) /\ Truthy(job.input_reference)
      THEN jobLabel \o ": cannot specify both remix_video_id and input_reference"
      ELSE IF Truthy(job.remix_video_id) /\ job.seconds # Undefined
      THEN jobLabel \o ": remix jobs cannot specify seconds"
      ELSE IF Truthy(job.remix_video_id) /\ job.size # Undefined
      THEN jobLabel \o ": remix jobs cannot specify size"
      ELSE IF Truthy(job.remix_video_id) /\ job.model # Undefined
      THEN jobLabel \o ": remix jobs cannot specify model"
      ELSE ""

\* A validator without the checks of the job's source.
validateJobConfig_FieldsOnly(job, index) == JobFieldError(job, index)

\* validateJobConfig: the message of the error it throws, "" when it
\* returns; index is 0-based.
validateJobConfig(job, index) ==
  IF JobFieldError(job, index) # "" THEN JobFieldError(job, index)
  ELSE JobSourceError(job, index)

\* validateBatchConfig: the message of the error it throws, "" when it
\* returns.  The files of this model carry no timeout, poll_interval or
\* retry_delay_ms, whose range checks are left out.
validateBatchConfig(cfg) ==
  LET bad == {i \in 1..Len(cfg.jobs) :
                validateJobConfig(cfg.jobs[i], i - 1) # ""}
      first == CHOOSE i \in bad : \A j \in bad : i <= j
  IN  IF Len(cfg.jobs) < MinJobs
      THEN "jobs must contain at least " \o ToString(MinJobs) \o " job"
      ELSE IF Len(cfg.jobs) > MaxJobsLimit
      THEN "jobs cannot exceed " \o ToString(MaxJobsLimit) \o " jobs"
      ELSE IF bad # {}
      THEN validateJobConfig(cfg.jobs[first], first - 1)
      ELSE IF /\ cfg.max_concurrent # Undefined
              /\ \/ cfg.max_concurrent[1] < MinConcurrent
                 \/ cfg.max_concurrent[1] > MaxConcurrentLimit
      THEN "max_concurrent must be between " \o ToString(MinConcurrent)
             \o " and " \o ToString(MaxConcurrentLimit)
      ELSE IF /\ cfg.retry_policy # Undefined
              /\ cfg.retry_policy[1].max_retries # Undefined
              /\ \/ cfg.retry_policy[1].max_retries[1] < MinRetry
                 \/ cfg.retry_policy[1].max_retries[1] > MaxRetry
      THEN "retry_policy.max_retries must be between " \o ToString(MinRetry)
             \o " and " \o ToString(MaxRetry)
      ELSE IF cfg.default_model # Undefined /\ ~isValidModel(cfg.default_model[1])
      THEN "invalid default_model '" \o cfg.default_model[1]
             \o "'. Valid models: sora-2, sora-2-pro"
      ELSE IF cfg.default_size # Undefined /\ ~isValidSize(cfg.default_size[1])
      THEN "invalid default_size '" \o cfg.default_size[1]
             \o "'. Valid sizes: 1920x1080, 1280x720, 1080x1920, 720x1280, 1080x1080, 480x480"
      ELSE ""

\* mergeBatchConfig, for the fields this model carries.
mergeBatchConfig(cfg, opts) ==
  [cfg EXCEPT
     !.max_concurrent =
        Some(OrElseNum(opts.maxConcurrent,
                       OrElse(cfg.max_concurrent, DefaultMaxConcurrent))),
     !.default_model = Some(OrElseString(cfg.default_model, DEFAULT_MODEL)),
     !.default_size = Some(OrElseString(cfg.default_size, DEFAULT_SIZE)),
     !.default_seconds = Some(OrElse(cfg.default_seconds, DEFAULT_SECONDS))]

\* The job entries of the configuration files.
CliJob(prompt, model, size, seconds, image, remix, path) ==
  [prompt |-> prompt, model |-> model, size |-> size, seconds |-> seconds,
   input_reference |-> image, remix_video_id |-> remix, output_path |-> path]

PlainJob ==
  CliJob(Some("a"), Undefined, Undefined, Undefined, Undefined, Undefined,
         Undefined)

CliJobLists ==
  { <<>>,
    [i \in 1..(MaxJobsLimit + 1) |-> PlainJob],
    <<PlainJob>>,
    <<[PlainJob EXCEPT !.seconds = Some(8)]>>,
    <<[PlainJob EXCEPT !.seconds = Some(10)]>>,
    <<[PlainJob EXCEPT !.model = Some("sora-2-pro"), !.seconds = Some(10)]>>,
    <<[PlainJob EXCEPT !.model = Some("sora-3")]>>,
    <<[PlainJob EXCEPT !.size = Some("640x480")]>>,
    <<[PlainJob EXCEPT !.prompt = Some(" ")]>>,
    <<[PlainJob EXCEPT !.output_path = PathOutside]>>,
    <<[PlainJob EXCEPT !.output_path = <<"/","o","2","/","a">>]>>,
    <<[PlainJob EXCEPT !.output_path = <<"/","o","/","a">>]>>,
    <<[PlainJob EXCEPT !.output_path = <<"s","/","a">>]>>,
    <<[PlainJob EXCEPT !.output_path = <<".",".","/","a">>]>>,
    <<[PlainJob EXCEPT !.remix_video_id = Some("video_1")]>>,
    <<[PlainJob EXCEPT !.remix_video_id = Some("video_1"),
                       !.input_reference = Some("cat.png")]>>,
    <<[PlainJob EXCEPT !.remix_video_id = Some("video_1"),
                       !.seconds = Some(8)]>>,
    <<[PlainJob EXCEPT !.remix_video_id = Some("video_1"),
                       !.size = Some("1280x720")]>>,
    <<[PlainJob EXCEPT !.remix_video_id = Some("video_1"),
                       !.model = Some("sora-2")]>>,
    <<PlainJob, [PlainJob EXCEPT !.input_reference = Some("cat.png")]>>,
    <<PlainJob, [PlainJob EXCEPT !.remix_video_id = Some("video_1"),
                                 !.input_reference = Some("cat.png")]>> }

\* What the configuration file holds.  Every file sets max_retries to 0.
CliFiles ==
  {[jobs |-> js, max_concurrent |-> mc,
    retry_policy |-> Some([max_retries |-> Some(0),
                           retry_on_errors |-> Undefined,
                           retry_delay_ms |-> Undefined]),
    default_model |-> dm, default_size |-> Undefined,
    default_seconds |-> Undefined] :
     js \in CliJobLists,
     mc \in {Undefined, Some(0), Some(1), Some(MaxConcurrentLimit + 1)},
     dm \in {Undefined, Some("sora-2-pro"), Some("sora-3")}}

CommandLines ==
  { <<>>,
    <<"--version">>,
    <<"-h", "b.json">>,
    <<"b.json">>,
    <<"b.json", "--bogus">>,
    <<"b.json", "--estimate-only">>,
    <<"--estimate-only", "b.json", "--max-concurrent", "10">>,
    <<"b.json", "--max-concurrent", "abc">>,
    <<"b.json", "--max-concurrent", "0">>,
    <<"b.json", "--max-concurrent", "3">>,
    <<"b.json", "--max-concurrent", "10">>,
    <<"b.json", "--max-concurrent", "-1">> }

CliInit ==
  /\ config = [jobs |-> <<>>, max_concurrent |-> Undefined,
               retry_policy |-> Undefined]
  /\ options = [allowAnyPath |-> FALSE]
  /\ BatchIdle
  /\ RetryIdle
  /\ limiter = [permits |-> 0, queue |-> <<>>]
  /\ SemIdle
  /\ costConfig = Undefined
  /\ costResults = <<>>
  /\ CostIdle
  /\ argv \in CommandLines
  /\ apiKey \in BOOLEAN
  /\ file \in {Undefined} \cup {Some(f) : f \in CliFiles}
  /\ CliIdle
  /\ execCall = <<>>
  /\ GenIdle
  /\ pollMax = 1
  /\ PollIdle

\* process.exit(code) after the given output.
Exit(code, out, err) ==
  /\ cliPc' = "exited"
  /\ exitCode' = Some(code)
  /\ stdout' = stdout \o out
  /\ stderr' = err

ApiKeyRequired ==
  <<"Error: OPENAI_API_KEY environment variable is required.">>

\* A main that asks for the API key in estimate-only mode as well.
CliMainStart_KeyAlways ==
  /\ cliPc = "start"
  /\ LET a == parseArgs(argv)
     IN  IF a.exit # Undefined THEN Exit(a.exit[1], <<>>, a.error)
         ELSE IF a.showVersion THEN Exit(0, <<"version">>, Undefined)
         ELSE IF a.showHelp \/ a.configPath = Undefined
         THEN Exit(IF a.showHelp THEN 0 ELSE 1, <<"help">>, Undefined)
         ELSE IF ~apiKey
         THEN Exit(1, <<>>, ApiKeyRequired)
         ELSE /\ cliPc' = "loading"
              /\ stdout' = Append(stdout, "loading")
              /\ UNCHANGED <<exitCode, stderr>>
  /\ UNCHANGED <<argv, apiKey, file, batchVars, retryVars, semVars, costVars,
                 execCall, genVars, pollVars>>

\* main, lines 255-277: from parseArgs to the await of loadBatchConfig.
CliMainStart ==
  /\ cliPc = "start"
  /\ LET a == parseArgs(argv)
     IN  IF a.exit # Undefined THEN Exit(a.exit[1], <<>>, a.error)
         ELSE IF a.showVersion THEN Exit(0, <<"version">>, Undefined)
         ELSE IF a.showHelp \/ a.configPath = Undefined
         THEN Exit(IF a.showHelp THEN 0 ELSE 1, <<"help">>, Undefined)
         ELSE IF ~apiKey /\ ~a.estimateOnly
         THEN Exit(1, <<>>, ApiKeyRequired)
         ELSE /\ cliPc' = "loading"
              /\ stdout' = Append(stdout, "loading")
              /\ UNCHANGED <<exitCode, stderr>>
  /\ UNCHANGED <<argv, apiKey, file, batchVars, retryVars, semVars, costVars,
                 execCall, genVars, pollVars>>

\* What the new BatchManager and its executeBatch are handed: the state of a
\* call that has not run yet.
CallExecuteBatch(cfg, opts) ==
  /\ config' = cfg
  /\ options' = [allowAnyPath |-> opts.allowAnyPath]
  /\ pc' = [i \in 1..Len(cfg.jobs) |-> "unstarted"]
  /\ attempt' = [i \in 1..Len(cfg.jobs) |-> 0]
  /\ calls' = [i \in 1..Len(cfg.jobs) |-> 0]
  /\ uniquePath' = [i \in 1..Len(cfg.jobs) |-> Undefined]
  /\ outputPath' = [i \in 1..Len(cfg.jobs) |-> Undefined]
  /\ UNCHANGED <<mainPc, thrown, timedOut, timerArmed, semaphore, results,
                 allRejected, report, files>>

\* main, lines 277-311: the configuration is loaded, validated and merged;
\* then the estimate is printed, or executeBatch is called.  The body of
\* executeBatch up to its first await is the step ExecuteBatchStart, which
\* is the only step that can follow.
CliLoaded ==
  /\ cliPc = "loading"
  /\ LET a == parseArgs(argv)
         message == validateBatchConfig(file[1])
         merged == mergeBatchConfig(file[1], a)
     IN  IF file = Undefined
         THEN /\ Exit(1, <<>>, <<"Error: ", "ENOENT">>)
              /\ UNCHANGED <<batchVars, estimate>>
         ELSE IF message # ""
         THEN /\ Exit(1, <<>>, <<"Error: ", message>>)
              /\ UNCHANGED <<batchVars, estimate>>
         ELSE IF a.estimateOnly
         THEN /\ estimate' = Append(estimate, estimateBatchCost(merged))
              /\ Exit(0, <<"loaded", "estimate">>, Undefined)
              /\ UNCHANGED batchVars
         ELSE /\ CallExecuteBatch(merged, a)
              /\ cliPc' = "executing"
              /\ stdout' = stdout \o <<"loaded", "starting">>
              /\ UNCHANGED <<exitCode, stderr, estimate>>
  /\ UNCHANGED <<argv, apiKey, file, retryVars, semVars, costConfig,
                 costResults, totalCost, execCall, genVars, pollVars>>

\* A main whose exit code looks at the failed jobs only.
CliFinish_IgnoresCancelled ==
  /\ cliPc = "executing"
  /\ \/ /\ mainPc = "returned"
        /\ Exit(IF report[1].failed > 0 THEN 1 ELSE 0, <<"result">>,
                Undefined)
     \/ /\ mainPc = "thrown"
        /\ Exit(1, <<>>, <<"Error: ">> \o thrown)
  /\ UNCHANGED <<argv, apiKey, file, batchVars, retryVars, semVars, costVars,
                 execCall, genVars, pollVars>>

\* main, lines 311-329: executeBatch has settled.
CliFinish ==
  /\ cliPc = "executing"
  /\ \/ /\ mainPc = "returned"
        /\ Exit(IF report[1].failed > 0 \/ report[1].cancelled > 0
                THEN 1 ELSE 0, <<"result">>, Undefined)
     \/ /\ mainPc = "thrown"
        /\ Exit(1, <<>>, <<"Error: ">> \o thrown)
  /\ UNCHANGED <<argv, apiKey, file, batchVars, retryVars, semVars, costVars,
                 execCall, genVars, pollVars>>

\* The batch runs while main awaits it; process.exit ends it.
CliNext ==
  \/ CliMainStart
  \/ CliLoaded
  \/ CliFinish
  \/ cliPc = "executing" /\ Next

CliSpec == CliInit /\ [][CliNext]_vars

\* --------------------------------------- generateVideo / remixVideo alone
\* The params objects of the calls.
VideoParams(callee, prompt, model, remix, path) ==
  [callee |-> callee, prompt |-> prompt, model |-> model,
   remix_video_id |-> remix, output_path |-> path]

GenParamSets ==
  {VideoParams("generateVideo", pr, m, Undefined, op) :
     pr \in {Some("a"), Some(" "), Undefined},
     m \in {Undefined, Some("sora-2"), Some("sora-3")},
     op \in {Undefined, Some("a.mp4")}} \cup
  {VideoParams("remixVideo", pr, Undefined, r, op) :
     pr \in {Some("a"), Undefined},
     r \in {Some("video_1"), Some(""), Undefined},
     op \in {Undefined, Some("a.mp4")}}

\* validateParams of generateVideo for a call without size and seconds, and
\* validateParams of remixVideo: the message of the error thrown, "" when
\* none is.
ParamsError(params) ==
  IF IsBlank(params.prompt)
  THEN "prompt is required and must be a non-empty string"
  ELSE IF params.callee = "remixVideo"
  THEN IF IsBlank(params.remix_video_id)
       THEN "remix_video_id is required and must be a non-empty string"
       ELSE ""
  ELSE IF params.model # Undefined /\ ~isValidModel(params.model[1])
  THEN "Invalid model '" \o params.model[1] \o "'. Valid models: sora-2, sora-2-pro"
  ELSE ""

\* remixVideo, lines 77-104: the message of the error thrown for a
\* submission that was not accepted.
RemixSubmitErrorMessage(response, videoId) ==
  LET base == "API error: " \o ToString(response.status)
      errorMessage ==
        IF response.json
        THEN IF response.message # "" THEN response.message ELSE base
        ELSE base \o " - " \o response.text
  IN  IF response.status = 401
      THEN "Authentication failed. Please check your OPENAI_API_KEY."
      ELSE IF response.status = 403
      THEN "Access denied. Sora 2 requires Tier 2+ API access."
      ELSE IF response.status = 404
      THEN "Video not found: " \o videoId
      ELSE IF response.status = 429
      THEN "Rate limit exceeded. Please wait and try again."
      ELSE errorMessage

SubmitErrorOf(params, response) ==
  IF params.callee = "remixVideo"
  THEN RemixSubmitErrorMessage(response, params.remix_video_id[1])
  ELSE SubmitErrorMessage(response)

\* What the file system and the network can fail with.
MkdirError == "EACCES: permission denied, mkdir"
FetchError == "fetch failed"
DownloadError == "Failed to download video: 404"
WriteError == "ENOSPC: no space left on device, write"

\* A call without the try / catch: the error rejects the promise.
GenCatch_Rethrows(message) ==
  /\ genPc' = "rejected"
  /\ UNCHANGED genResult

\* The catch of generateVideo (lines 533-541) and of remixVideo (lines
\* 145-154): the call resolves with the error's message.
GenCatch(message) ==
  /\ genPc' = "resolved"
  /\ genResult' = Some(VideoResult(FALSE, message, ""))

\* The return statements of lines 128-143 and 515-532.
GenReturn ==
  /\ genPc' = "resolved"
  /\ genResult' = Some(VideoResult(TRUE, "", genVideoId))

GenInit ==
  /\ config = [jobs |-> <<[output_path |-> Undefined]>>,
               max_concurrent |-> Undefined, retry_policy |-> Undefined]
  /\ options = [allowAnyPath |-> FALSE]
  /\ BatchIdle
  /\ RetryIdle
  /\ limiter = [permits |-> 0, queue |-> <<>>]
  /\ SemIdle
  /\ costConfig = Undefined
  /\ costResults = <<>>
  /\ CostIdle
  /\ NoCli
  /\ execCall = <<>>
  /\ GenIdle
  /\ pollMax = 1
  /\ PollIdle

genFrame == <<batchVars, retryVars, semVars, costVars, cliVars, execCall,
             pollVars>>

\* The call up to its first await: validateParams, then the output path is
\* prepared if one was given, else the submission is sent.
GenCall(params) ==
  /\ genPc = "idle"
  /\ genParams' = Some(params)
  /\ IF ParamsError(params) # ""
     THEN /\ GenCatch(ParamsError(params))
          /\ UNCHANGED genTrace
     ELSE /\ genTrace' = <<"validated">>
          /\ genPc' = IF Truthy(params.output_path) THEN "preparing"
                      ELSE "submitting"
          /\ UNCHANGED genResult
  /\ UNCHANGED <<genVideoId, genFrame>>

\* normalizeAndValidatePath and generateUniqueFilePath settle.
GenPathPrepared(ok) ==
  /\ genPc = "preparing"
  /\ IF ok
     THEN /\ genPc' = "submitting"
          /\ genTrace' = Append(genTrace, "path")
          /\ UNCHANGED genResult
     ELSE /\ GenCatch(MkdirError)
          /\ UNCHANGED genTrace
  /\ UNCHANGED <<genParams, genVideoId, genFrame>>

\* fetch fails, or the submission POST is answered.
GenSubmitAnswered(failed, response, id) ==
  /\ genPc = "submitting"
  /\ IF failed
     THEN /\ GenCatch(FetchError)
          /\ UNCHANGED <<genTrace, genVideoId>>
     ELSE IF response.status # 200
     THEN /\ GenCatch(SubmitErrorOf(genParams[1], response))
          /\ UNCHANGED <<genTrace, genVideoId>>
     ELSE /\ genPc' = "polling"
          /\ genTrace' = Append(genTrace, "submitted")
          /\ genVideoId' = id
          /\ UNCHANGED genResult
  /\ UNCHANGED <<genParams, genFrame>>

\* pollVideoResult returns the completed video or throws.
GenPollEnded(ending) ==
  /\ genPc = "polling"
  /\ IF ending = "exhausted"
     THEN /\ GenCatch(PollTimeoutMessage(DefaultMaxPollAttempts,
                                         DefaultPollInterval))
          /\ UNCHANGED genTrace
     ELSE IF ending = "failed"
     THEN /\ GenCatch(PollFailedMessage("failed"))
          /\ UNCHANGED genTrace
     ELSE /\ genTrace' = Append(genTrace, "completed")
          /\ IF Truthy(genParams[1].output_path)
             THEN /\ genPc' = "downloading"
                  /\ UNCHANGED genResult
             ELSE GenReturn
  /\ UNCHANGED <<genParams, genVideoId, genFrame>>

\* downloadVideo / downloadVideoFromApi gets its answer.
GenDownloaded(ok) ==
  /\ genPc = "downloading"
  /\ IF ok
     THEN /\ genPc' = "writing"
          /\ genTrace' = Append(genTrace, "downloaded")
          /\ UNCHANGED genResult
     ELSE /\ GenCatch(DownloadError)
          /\ UNCHANGED genTrace
  /\ UNCHANGED <<genParams, genVideoId, genFrame>>

\* fs.writeFile settles.
GenWritten(ok) ==
  /\ genPc = "writing"
  /\ IF ok
     THEN /\ genTrace' = Append(genTrace, "written")
          /\ GenReturn
     ELSE /\ GenCatch(WriteError)
          /\ UNCHANGED genTrace
  /\ UNCHANGED <<genParams, genVideoId, genFrame>>

GenNext ==
  \/ \E params \in GenParamSets : GenCall(params)
  \/ \E ok \in BOOLEAN : GenPathPrepared(ok)
  \/ \E failed \in BOOLEAN : \E response \in SubmitResponses :
       \E id \in VideoIds : GenSubmitAnswered(failed, response, id)
  \/ \E ending \in PollEndings : GenPollEnded(ending)
  \/ \E ok \in BOOLEAN : GenDownloaded(ok)
  \/ \E ok \in BOOLEAN : GenWritten(ok)

GenSpec == GenInit /\ [][GenNext]_vars

\* ------------------------------------------------------------------ claims
Returns == mainPc # "returned" /\ mainPc' = "returned"

IndexCount(res, i) == Cardinality({k \in 1..Len(res) : res[k].index = i})

\* executeJobWithRetry calls in flight, retry delays included.
InFlight == {i \in Jobs : pc[i] \in {"executing", "sleeping"}}

\* No executor call has settled so far: a started call is still the first
\* one and still running.
NoCallSettled ==
  \A i \in Jobs : calls[i] = 0 \/ (calls[i] = 1 /\ pc[i] = "executing")

\* C1: at the step at which executeBatch returns its report, the result
\* sequence has exactly N outcomes and every index of 1..N occurs once.
C1_ReportCoversEachIndexOnce ==
  [][Returns =>
       /\ Len(results') = N
       /\ \A i \in Jobs : IndexCount(results', i) = 1]_vars

C1_Witness ==
  /\ mainPc = "returned"
  /\ N = 2
  /\ Len(results) = 2
  /\ results[1].status = "completed"
  /\ results[2].status = "cancelled"

\* C2: in a returned report succeeded + failed + cancelled = total, and
\* total is the number of jobs of the configuration.
C2_CountsAddUp ==
  report # <<>> =>
    /\ report[1].succeeded + report[1].failed + report[1].cancelled
         = report[1].total
    /\ report[1].total = Len(config.jobs)

C2_Witness ==
  /\ report # <<>>
  /\ report[1].succeeded = 1
  /\ report[1].cancelled = 1
  /\ report[1].total = 2

\* C3: with max_concurrent = k, never more than k executeJobWithRetry calls
\* (retry delays included) are in flight.
C3_AtMostCapInFlight ==
  config.max_concurrent # Undefined =>
    Cardinality(InFlight) <= config.max_concurrent[1]

C3_Witness ==
  /\ config.max_concurrent = Some(1)
  /\ \E i \in Jobs : pc[i] = "sleeping"
  /\ \E i \in Jobs : pc[i] = "waiting"

\* C4 (as claimed): an error raised inside a job never makes executeBatch
\* throw and never ends the job's task without an outcome of that job.
C4_JobErrorsContained ==
  /\ mainPc # "thrown"
  /\ \A i \in Jobs : pc[i] # "rejected"

\* C5 (as claimed): once the report is returned, its result sequence is not
\* changed by a task that finishes later.
C5_LateCompletionsDropped ==
  [][mainPc = "returned" => results' = results]_vars

\* C6: if the deadline fires and no executor call has settled when the grace
\* window ends, all N outcomes of the report are `cancelled` with the reason
\* of the synthesis.
C6_AllCancelledWhenNothingSettles ==
  [][(mainPc = "grace" /\ Returns /\ NoCallSettled) =>
       /\ Len(results') = N
       /\ \A k \in 1..Len(results') :
            /\ results'[k].status = "cancelled"
            /\ results'[k].error = CancelledBySynthesis]_vars

C6_Witness ==
  /\ mainPc = "returned"
  /\ timedOut
  /\ NoCallSettled
  /\ \E i \in Jobs : pc[i] = "executing"
  /\ \E i \in Jobs : pc[i] = "waiting"
  /\ \A k \in 1..Len(results) : results[k].error = CancelledBySynthesis

\* C7: executeBatch always completes, also when an executor call never
\* settles; once the timer has fired first it returns a report, and the
\* timeout error is never what executeBatch throws.
C7_AlwaysCompletes ==
  /\ <>(mainPc \in {"returned", "thrown"})
  /\ [](mainPc = "grace" => <>(mainPc = "returned"))
  /\ [](thrown # TimeoutMessage)

C7_Witness ==
  /\ mainPc = "returned"
  /\ timedOut
  /\ \A i \in Jobs : pc[i] = "executing" /\ calls[i] = 1

\* C8: a task that resumes with its permit after the flag was raised records
\* `cancelled` with the fixed reason, starts no executor call and releases
\* its permit in the same step, waking the longest-waiting task if any.
C8_AdmittedAfterFlagIsCancelled ==
  [][\A i \in Jobs :
       (pc[i] = "admitted" /\ timedOut /\ pc'[i] # "admitted") =>
         /\ pc'[i] = "done"
         /\ calls'[i] = 0
         /\ results' = Append(results,
                         Outcome(i, "cancelled", CancelledBeforeStart))
         /\ IF semaphore.queue # <<>>
            THEN /\ pc'[Head(semaphore.queue)] = "admitted"
                 /\ semaphore'.queue = Tail(semaphore.queue)
                 /\ semaphore'.permits = semaphore.permits
            ELSE semaphore'.permits = semaphore.permits + 1]_vars

C8_Witness ==
  /\ timedOut
  /\ \E k \in 1..Len(results) : results[k].error = CancelledBeforeStart
  /\ \A i \in Jobs : pc[i] = "done"

\* C9: every outcome recorded before executeBatch finalizes is in the report
\* unchanged and is the only outcome of its index; a cancellation is
\* synthesized only for an index without a recorded outcome.
C9_SynthesisKeepsRecordedOutcomes ==
  [][Returns =>
       /\ \A k \in 1..Len(results) :
            /\ \E j \in 1..Len(results') : results'[j] = results[k]
            /\ IndexCount(results', results[k].index) = 1
       /\ \A j \in 1..Len(results') :
            (\A k \in 1..Len(results) : results[k] # results'[j]) =>
              /\ results'[j].index \notin ProcessedIndices(results)
              /\ results'[j].status = "cancelled"]_vars

C9_Witness ==
  /\ mainPc = "returned"
  /\ timedOut
  /\ Len(results) = 2
  /\ results[1].error = CancelledBySynthesis
  /\ results[2].status = "failed"

\* C10: a job's executor is called at most max_retries + 1 times, exactly
\* once when max_retries = 0, and the attempt counter only counts up: the
\* number of calls started is always the counter plus one.
C10_AtMostMaxRetriesPlusOneCalls ==
  \A i \in Jobs :
    /\ calls[i] <= retryPolicy.maxRetries + 1
    /\ calls[i] > 0 => calls[i] = attempt[i] + 1
    /\ ( /\ retryPolicy.maxRetries = 0
         /\ \E k \in 1..Len(results) :
              /\ results[k].index = i
              /\ results[k].status \in {"completed", "failed"} ) =>
         calls[i] = 1

C10_Witness ==
  /\ retryPolicy.maxRetries = 2
  /\ \E i \in Jobs : calls[i] = 3 /\ pc[i] = "done"

\* The message m has the pattern p somewhere in it, letter case ignored.
ContainsIgnoringCase(m, p) ==
  \E k \in 1..(Len(m) - Len(p) + 1) :
    \A d \in 1..Len(p) :
      ToLowerChar(SubSeq(m, k + d - 1, k + d - 1)) = ToLowerChar(p[d])

MatchesTrigger(m) ==
  \E p \in retryPolicy.retryPatterns : ContainsIgnoringCase(m, p)

\* Attempt k of the call failed with a message that has a retry trigger.
TriggerFailure(k) ==
  /\ ~AttemptResult(k).success
  /\ MatchesTrigger(AttemptResult(k).error)

\* C11: after j <= max_retries attempts that all failed with a message that
\* has a retry trigger the call goes on to attempt j + 1, and when an
\* attempt succeeds the call resolves `completed` with the video of that
\* attempt and no error.
C11_SuccessAfterRetriesCompletes ==
  /\ ( /\ 1 <= Len(retryTrace)
       /\ Len(retryTrace) <= retryPolicy.maxRetries
       /\ \A k \in 1..Len(retryTrace) : TriggerFailure(k) ) =>
       retryPc \in {"sleeping", "executing"}
  /\ ( /\ retryTrace # <<>>
       /\ AttemptResult(Len(retryTrace)).success ) =>
       /\ retryPc = "returned"
       /\ retryResult =
            Some([index |-> 1, status |-> "completed", error |-> "",
                  video_id |-> retryTrace[Len(retryTrace)].id])

C11_Witness ==
  /\ retryPolicy.maxRetries = 2
  /\ Len(retryTrace) = 3
  /\ TriggerFailure(1)
  /\ TriggerFailure(2)
  /\ retryResult # <<>>
  /\ retryResult[1].status = "completed"
  /\ retryResult[1].video_id = "video_2"

\* C12: a failed attempt is followed by the retry delay and another attempt
\* exactly when attempt < max_retries and the message has, letter case
\* ignored, one of the triggers; otherwise the call resolves `failed` with
\* that message at once.  Nothing but the message text and the attempt
\* number enters the decision.
C12_RetryExactlyOnTriggerWhileAttemptsRemain ==
  [][ /\ (retryPc = "executing" /\ retryTrace' # retryTrace) =>
           LET result == generateVideo(retryTrace'[Len(retryTrace')],
                           DefaultPollInterval, DefaultMaxPollAttempts)
           IN  ~result.success =>
                 /\ retryPc' = "sleeping" <=>
                      /\ retryAttempt < retryPolicy.maxRetries
                      /\ MatchesTrigger(result.error)
                 /\ retryPc' # "sleeping" =>
                      /\ retryPc' = "returned"
                      /\ retryResult' =
                           Some([index |-> 1, status |-> "failed",
                                 error |-> result.error, video_id |-> ""])
      /\ (retryPc = "sleeping" /\ retryPc' # "sleeping") =>
           /\ retryPc' = "executing"
           /\ retryAttempt' = retryAttempt + 1 ]_vars

C12_Witness ==
  /\ config.retry_policy = Undefined
  /\ retryPc = "executing"
  /\ retryAttempt = 1
  /\ Len(retryTrace) = 1
  /\ retryTrace[1].response.status = 400
  /\ AttemptResult(1).error = "Max 500 chars"

\* The call resolved `failed` and this is what the remote did at the attempt
\* that failed last.
FailedOn(remote) ==
  /\ retryResult # <<>>
  /\ retryResult[1].status = "failed"
  /\ retryTrace # <<>>
  /\ retryTrace[Len(retryTrace)] = remote

\* C13 (as claimed): under the default retry policy a job whose submission
\* is answered with HTTP 429 is attempted again while attempts remain: it
\* resolves `failed` on such an answer only at attempt max_retries + 1.
C13_RateLimitedSubmissionIsRetried ==
  \A remote \in RemoteBehaviours :
    ( /\ config.retry_policy = Undefined
      /\ remote.response.status = 429
      /\ FailedOn(remote) ) =>
      Len(retryTrace) = retryPolicy.maxRetries + 1

\* C14 (as claimed): under the default retry policy a job whose polling ran
\* out of poll attempts is attempted again while attempts remain: it
\* resolves `failed` on that error only at attempt max_retries + 1.
C14_PollTimeoutIsRetried ==
  \A remote \in RemoteBehaviours :
    ( /\ config.retry_policy = Undefined
      /\ remote.poll = "exhausted"
      /\ FailedOn(remote) ) =>
      Len(retryTrace) = retryPolicy.maxRetries + 1

\* C15 (as claimed): no two jobs of a batch are handed the same output path
\* at line 132.
C15_NoTwoJobsShareAPath ==
  \A i, j \in Jobs :
    (i # j /\ uniquePath[i] # Undefined /\ uniquePath[j] # Undefined) =>
      uniquePath[i] # uniquePath[j]

\* C16: acquire() resolves for the callers in the order in which they called
\* it: the sequence of grants is always a beginning of the sequence of
\* requests, so no caller is admitted before one that asked earlier, whether
\* it asked before or after the release that freed the permit.
C16_GrantsInRequestOrder ==
  /\ Len(granted) <= Len(requested)
  /\ \A k \in 1..Len(granted) : granted[k] = requested[k]

C16_Witness ==
  /\ Len(granted) = 3
  /\ Len(requested) = 4
  /\ limiter.permits = 0
  /\ limiter.queue = <<requested[4]>>
  /\ requested[3] # requested[1]
  /\ requested[4] # requested[1]

\* C17: at the step at which executeBatch returns its report, the indices
\* of the result sequence increase strictly from each outcome to the next.
C17_ReportAscendingByIndex ==
  [][Returns =>
       \A k \in 1..(Len(results') - 1) :
         results'[k].index < results'[k + 1].index]_vars

C17_Witness ==
  /\ mainPc = "returned"
  /\ Len(results) = 2
  /\ results[1].index = 1
  /\ results[1].error = CancelledBySynthesis
  /\ results[2].index = 2
  /\ results[2].status = "completed"

\* C18: with max_concurrent = 1 the executor of a job is first called only
\* after the task of every job with a smaller index has ended (and so has
\* released the permit); hence no two jobs execute at the same time.
C18_SequentialInIndexOrder ==
  config.max_concurrent = Some(1) =>
    \A i, j \in Jobs :
      (i < j /\ calls[j] > 0) => pc[i] \in {"done", "rejected"}

C18_Witness ==
  /\ config.max_concurrent = Some(1)
  /\ N = 2
  /\ pc[1] = "done"
  /\ calls[1] = 2
  /\ pc[2] = "executing"

\* The price of a second of video in thousandths of a dollar, by model and
\* resolution tier, as the price list states it.
PriceList(model, size) ==
  IF model = "sora-2" THEN 100
  ELSE IF size \in {"1280x720", "720x1280", "480x480"} THEN 300
  ELSE 500

RECURSIVE SumTo(_, _)
SumTo(f, n) == IF n = 0 THEN 0 ELSE f[n] + SumTo(f, n - 1)

\* What the job of index i is charged: its price per second times the
\* measured duration if it completed and reported one, else 0.
Charge(i) ==
  LET job == costConfig.jobs[i]
      done == {k \in 1..Len(costResults) :
                 /\ costResults[k].index = i
                 /\ costResults[k].status = "completed"
                 /\ costResults[k].video_duration # Undefined}
  IN  IF done = {} THEN 0
      ELSE PriceList(EffectiveModel(job, costConfig),
                     EffectiveSize(job, costConfig))
             * costResults[CHOOSE k \in done : TRUE].video_duration[1]

\* C19: the total of calculateTotalCost is the sum over the jobs of their
\* charge: price per second of the job's effective model and size times the
\* measured duration for a completed job, 0 for a failed or cancelled job
\* and for a completed job without a measured duration.
C19_CostSumsCompletedJobs ==
  totalCost # Undefined =>
    totalCost[1] =
      SumTo([i \in 1..Len(costConfig.jobs) |-> Charge(i)],
            Len(costConfig.jobs))

C19_Witness ==
  /\ totalCost = Some(6000)
  /\ Len(costResults) = 2
  /\ costResults[1].status = "completed"
  /\ costResults[1].video_duration = Some(12)
  /\ costConfig.jobs[1].model = Some("sora-2-pro")
  /\ costConfig.jobs[1].size = Some("1920x1080")
  /\ costConfig.jobs[1].seconds = Some(10)
  /\ costResults[2].status = "failed"

\* The nominal cost of a configuration: the sum over its jobs of the price
\* per second of the effective model and size times the effective seconds.
NominalCost ==
  SumTo([i \in 1..Len(costConfig.jobs) |->
           PriceList(EffectiveModel(costConfig.jobs[i], costConfig),
                     EffectiveSize(costConfig.jobs[i], costConfig))
             * EffectiveSeconds(costConfig.jobs[i], costConfig)],
        Len(costConfig.jobs))

SingleSora2Job720p8s ==
  costConfig.jobs =
    <<CostJob(Some("sora-2"), Some("1280x720"), Some(8), Undefined, Undefined)>>

\* C20: estimateBatchCost returns estimated_min = 0.9 x T and estimated_max
\* = 1.2 x T for the nominal cost T; for one sora-2 job of 8 seconds at
\* 1280x720, T is 0.8 and the band is 0.72 to 0.96 (800, 720 and 960
\* thousandths).
C20_EstimateBand ==
  estimate # Undefined =>
    /\ 10 * estimate[1].estimated_min = 9 * NominalCost
    /\ 10 * estimate[1].estimated_max = 12 * NominalCost
    /\ SingleSora2Job720p8s =>
         /\ NominalCost = 800
         /\ estimate[1].estimated_min = 720
         /\ estimate[1].estimated_max = 960

C20_Witness ==
  /\ SingleSora2Job720p8s
  /\ estimate # Undefined
  /\ estimate[1].total_jobs = 1
  /\ estimate[1].estimated_min = 720
  /\ estimate[1].estimated_max = 960

\* The jobs of the configuration that are of a kind: remix if a remix source
\* is given, image-sourced if only an image is given, text otherwise.
JobsOfKind(kind) ==
  {i \in 1..Len(costConfig.jobs) :
     LET job == costConfig.jobs[i]
         hasRemix == job.remix_video_id \notin {Undefined, Some("")}
         hasImage == job.input_reference \notin {Undefined, Some("")}
     IN  CASE kind = "remix" -> hasRemix
           [] kind = "image_to_video" -> hasImage /\ ~hasRemix
           [] kind = "text_to_video" -> ~hasImage /\ ~hasRemix}

Kinds == {"text_to_video", "image_to_video", "remix"}

\* C21: the breakdown of an estimate has one item for every kind that has
\* jobs and none for the others, each with the number of jobs of that kind
\* (remix before image-sourced before text); the counts add up to
\* total_jobs, and the costs add up to the nominal total of the band.
C21_BreakdownPartitionsJobs ==
  estimate # Undefined =>
    LET b == estimate[1].breakdown
    IN  /\ \A k \in Kinds :
             Cardinality({n \in 1..Len(b) : b[n].type = k})
               = IF JobsOfKind(k) = {} THEN 0 ELSE 1
        /\ \A n \in 1..Len(b) :
             /\ b[n].type \in Kinds
             /\ b[n].count = Cardinality(JobsOfKind(b[n].type))
        /\ SumTo([n \in 1..Len(b) |-> b[n].count], Len(b))
             = estimate[1].total_jobs
        /\ estimate[1].total_jobs = Len(costConfig.jobs)
        /\ SumTo([n \in 1..Len(b) |-> b[n].estimated_cost], Len(b))
             = NominalCost
        /\ 10 * estimate[1].estimated_min
             = 9 * SumTo([n \in 1..Len(b) |-> b[n].estimated_cost], Len(b))

C21_Witness ==
  /\ estimate # Undefined
  /\ Len(costConfig.jobs) = 2
  /\ costConfig.jobs[1].input_reference = Some("cat.png")
  /\ costConfig.jobs[1].remix_video_id = Some("video_1")
  /\ costConfig.jobs[2].input_reference = Some("cat.png")
  /\ costConfig.jobs[2].remix_video_id = Undefined
  /\ Len(estimate[1].breakdown) = 2
  /\ estimate[1].breakdown[1].type = "image_to_video"
  /\ estimate[1].breakdown[1].count = 1
  /\ estimate[1].breakdown[2].type = "remix"

Asked(words) == \E k \in 1..Len(argv) : argv[k] \in words
WellFormed == ~Asked({"--bogus"})
ConfigPathGiven == Asked({"b.json"})
EstimateAsked == Asked({"--estimate-only"})
InfoAsked == Asked({"--version", "-v", "--help", "-h"})

\* The batch has not been touched: executeBatch was not called, no task was
\* launched, no permit was taken and no executor call was made.
NothingStarted ==
  /\ mainPc = "idle"
  /\ cliPc # "executing"
  /\ pc = <<>>
  /\ calls = <<>>
  /\ semaphore = [permits |-> 0, queue |-> <<>>]
  /\ results = <<>>

\* The configurations the validation is said to reject.
HasBothSources(job) ==
  job.remix_video_id # Undefined /\ job.input_reference # Undefined
RemixWithParameters(job) ==
  /\ job.remix_video_id # Undefined
  /\ job.seconds # Undefined \/ job.size # Undefined \/ job.model # Undefined
HasInvalidEnum(job) ==
  \/ job.model \notin {Undefined, Some("sora-2"), Some("sora-2-pro")}
  \/ job.size \notin {Undefined} \cup {Some(z) : z \in SIZES}
SaidToBeRejected(f) ==
  \/ Len(f.jobs) < 1
  \/ Len(f.jobs) > 100
  \/ \E i \in 1..Len(f.jobs) :
       \/ HasBothSources(f.jobs[i])
       \/ RemixWithParameters(f.jobs[i])
       \/ HasInvalidEnum(f.jobs[i])
  \/ f.default_model \notin {Undefined, Some("sora-2"), Some("sora-2-pro")}

\* C23: when the configuration is one that validation rejects (job count
\* outside 1..100, a job with both sources, a remix job with seconds, size or
\* model, an invalid enum value), the run fails as a whole before any job
\* starts: executeBatch is never called, no task is launched, no permit is
\* taken, no executor call is made, and a run that got to loading the file
\* exits with code 1 and an error message.
C23_RejectedConfigStartsNothing ==
  (file # Undefined /\ SaidToBeRejected(file[1])) =>
    /\ NothingStarted
    /\ (cliPc = "exited" /\ Len(stdout) > 0 /\ stdout[1] = "loading") =>
         exitCode = Some(1) /\ stderr # Undefined /\ stderr[1] = "Error: "

C23_Witness ==
  /\ cliPc = "exited"
  /\ argv = <<"b.json">>
  /\ apiKey
  /\ stdout = <<"loading">>
  /\ exitCode = Some(1)
  /\ file # Undefined
  /\ Len(file[1].jobs) = 2
  /\ HasBothSources(file[1].jobs[2])
  /\ file[1].max_concurrent = Undefined
  /\ file[1].default_model = Undefined
  /\ stderr = <<"Error: ",
                "Job 2: cannot specify both remix_video_id and input_reference">>

\* C24 (as claimed): every non-remix job of a configuration that passed
\* validateBatchConfig reaches the executor with a duration that is allowed
\* for the model it reaches the executor with.
C24_ValidatedDurationIsAllowed ==
  \A i \in 1..Len(config.jobs) :
    ( /\ cliPc = "executing"
      /\ pc[i] = "executing"
      /\ ~Truthy(config.jobs[i].remix_video_id) ) =>
      EffectiveSeconds(config.jobs[i], config)
        \in DURATIONS(EffectiveModel(config.jobs[i], config))

\* C25 (as claimed): the Semaphore of a batch run through the command is
\* created with 1 to 5 permits.
C25_PermitsWithinLimits ==
  cliPc = "executing" => maxConcurrent \in 1..5

\* C26 (as claimed): the command exits with 0 exactly when the batch ran and
\* every job completed, and with 1 otherwise.
AllCompleted ==
  /\ mainPc = "returned"
  /\ report[1].succeeded = report[1].total
  /\ report[1].failed = 0
  /\ report[1].cancelled = 0

C27_EstimateOnlyRunsNothing ==
  ( /\ WellFormed /\ ~InfoAsked /\ ConfigPathGiven /\ EstimateAsked
    /\ file # Undefined
    /\ ~SaidToBeRejected(file[1])
    /\ validateBatchConfig(file[1]) = "" ) =>
    /\ NothingStarted
    /\ cliPc = "exited" =>
         /\ exitCode = Some(0)
         /\ stdout = <<"loading", "loaded", "estimate">>
         /\ stderr = Undefined
         /\ Len(estimate) = 1
         /\ estimate[1].total_jobs = Len(file[1].jobs)

C27_Witness ==
  /\ cliPc = "exited"
  /\ ~apiKey
  /\ argv = <<"--estimate-only", "b.json", "--max-concurrent", "10">>
  /\ exitCode = Some(0)
  /\ stdout = <<"loading", "loaded", "estimate">>
  /\ Len(estimate) = 1
  /\ estimate[1].total_jobs = 2
  /\ Len(estimate[1].breakdown) = 2
  /\ NothingStarted

\* The value the precedence rule gives: the job's own, else the default of
\* the batch, else the global default.
OwnElseDefault(own, batchDefault, global) ==
  IF own # Undefined THEN own[1]
  ELSE IF batchDefault # Undefined THEN batchDefault[1]
  ELSE global

RuleModel(i) ==
  OwnElseDefault(costConfig.jobs[i].model, costConfig.default_model, "sora-2")
RuleSize(i) ==
  OwnElseDefault(costConfig.jobs[i].size, costConfig.default_size, "1280x720")
RuleSeconds(i) ==
  OwnElseDefault(costConfig.jobs[i].seconds, costConfig.default_seconds, 4)

\* C28: for every job, executeJobWithRetry resolves model, size and duration
\* to the job's own value if set, else the default of the batch, else the
\* global default (sora-2, 1280x720, 4 s); estimateBatchCost prices every job
\* by the same three values, and calculateTotalCost prices every completed
\* job by the same model and size.
C28_ParametersResolvedAlike ==
  LET n == Len(costConfig.jobs)
  IN  /\ \A i \in 1..Len(execCall) :
           /\ execCall[i].model = RuleModel(i)
           /\ execCall[i].size = RuleSize(i)
           /\ execCall[i].seconds = RuleSeconds(i)
      /\ estimate # <<>> =>
           10 * estimate[1].estimated_min =
             9 * SumTo([i \in 1..n |->
                          PriceList(RuleModel(i), RuleSize(i)) * RuleSeconds(i)],
                       n)
      /\ totalCost # Undefined =>
           totalCost[1] =
             SumTo([i \in 1..n |-> PriceList(RuleModel(i), RuleSize(i)) * 4], n)

C28_Witness ==
  /\ Len(costConfig.jobs) = 2
  /\ costConfig.default_model = Some("sora-2-pro")
  /\ costConfig.jobs[1].model = Undefined
  /\ costConfig.jobs[1].remix_video_id = Undefined
  /\ costConfig.jobs[2].model = Some("sora-2")
  /\ Len(execCall) = 2
  /\ execCall[1] = [callee |-> "generateVideo", model |-> "sora-2-pro",
                    size |-> "1080x1080", seconds |-> 15]
  /\ execCall[2].model = "sora-2"
  /\ execCall[2].seconds = 8
  /\ estimate # <<>>
  /\ totalCost # Undefined

\* C29 (as claimed): pollVideoResult makes no status request after an answer
\* with a terminal status: on completed or succeeded it returns that answer,
\* on failed or cancelled it reports the failure.
TerminalStatuses == {"completed", "succeeded", "failed", "cancelled"}

C29_StopsAtTerminalStatus ==
  /\ \A k \in 1..Len(pollTrace) :
       pollTrace[k].status \in TerminalStatuses => k = Len(pollTrace)
  /\ \A k \in 1..Len(pollTrace) :
       pollTrace[k].status \in TerminalStatuses =>
         /\ pollPc = "settled"
         /\ pollOutcome # Undefined
         /\ pollOutcome[1].threw = (pollTrace[k].status \in {"failed", "cancelled"})

\* The callers that wait, and the position of a caller's latest acquire()
\* among all acquire() calls.
Waiting == {d \in Callers : holder[d] = "waiting"}
LatestRequest(d) ==
  CHOOSE k \in 1..Len(requested) :
    requested[k] = d /\ \A j \in (k + 1)..Len(requested) : requested[j] # d
LongestWaiting ==
  CHOOSE d \in Waiting : \A e \in Waiting : LatestRequest(d) <= LatestRequest(e)
Releases(c) == holder[c] = "holding" /\ holder'[c] = "idle"

\* C30: a release() with at least one waiting caller wakes exactly the caller
\* that has waited longest, takes it out of the wait queue and leaves the
\* number of free permits as it was; a release() with no waiting caller adds
\* exactly one free permit and wakes nobody.
C30_ReleaseWakesLongestWaiting ==
  [][\A c \in Callers : Releases(c) =>
       IF Waiting # {}
       THEN /\ holder'[LongestWaiting] = "holding"
            /\ granted' = Append(granted, LongestWaiting)
            /\ \A d \in Callers \ {c, LongestWaiting} : holder'[d] = holder[d]
            /\ Len(limiter'.queue) = Len(limiter.queue) - 1
            /\ \A k \in 1..Len(limiter'.queue) :
                 /\ limiter'.queue[k] = limiter.queue[k + 1]
                 /\ limiter'.queue[k] # LongestWaiting
            /\ limiter'.permits = limiter.permits
       ELSE /\ limiter'.permits = limiter.permits + 1
            /\ limiter'.queue = <<>>
            /\ granted' = granted
            /\ \A d \in Callers \ {c} : holder'[d] = holder[d]]_vars

C30_Witness ==
  /\ requested = <<1, 2, 3>>
  /\ granted = <<1, 2>>
  /\ holder[1] = "idle"
  /\ holder[2] = "holding"
  /\ holder[3] = "waiting"
  /\ limiter = [permits |-> 0, queue |-> <<3>>]

\* The positions in which a job task holds a permit, and those in which
\* it has ended.
HoldsPermit(p) == p \in {"admitted", "uniquing", "executing", "sleeping"}
HasEnded(p) == p \in {"done", "rejected"}
PermitsHeld(pcs) == Cardinality({i \in Jobs : HoldsPermit(pcs[i])})

\* C31: every job task takes one permit, keeps it through its attempts and
\* retry delays, and gives it back exactly once when it ends, by an outcome
\* or by a thrown error: a task gets its permit only from not having one,
\* leaves holding only by ending, never starts again, a retry step leaves
\* the limiter alone, and the free permits and the permits held always add
\* up to the permits the limiter was created with.
C31_OnePermitPerTask ==
  [][/\ \A i \in Jobs :
          /\ HoldsPermit(pc'[i]) /\ ~HoldsPermit(pc[i]) =>
               pc[i] \in {"unstarted", "waiting"} /\ pc'[i] = "admitted"
          /\ HoldsPermit(pc[i]) => HoldsPermit(pc'[i]) \/ HasEnded(pc'[i])
          /\ HasEnded(pc[i]) => pc'[i] = pc[i]
          /\ ( /\ pc[i] \in {"executing", "sleeping"}
               /\ pc'[i] \in {"executing", "sleeping"}
               /\ pc'[i] # pc[i] ) => semaphore' = semaphore
     /\ mainPc' # "idle" =>
          semaphore'.permits + PermitsHeld(pc') = maxConcurrent]_vars

C31_Witness ==
  /\ Len(config.jobs) = 2
  /\ config.max_concurrent = Some(1)
  /\ pc = <<"done", "rejected">>
  /\ calls = <<2, 0>>
  /\ semaphore = [permits |-> 1, queue |-> <<>>]
  /\ Len(results) = 1

\* C32 (as claimed): once the timed-out flag is raised no executor call is
\* started, neither the first call of a job nor a call that repeats a failed
\* attempt.
C32_NoExecutorCallAfterDeadline ==
  [][\A i \in Jobs : calls'[i] > calls[i] => ~timedOut]_vars

\* C33: executeJobWithRetry sleeps retryDelay exactly once between two
\* consecutive attempts and neither before the first attempt nor after the
\* last one, and the duration_ms of its result is counted from the call, so
\* a result reached after k retries has a duration of at least k times
\* retryDelay.
DelayOfPolicy ==
  IF config.retry_policy = Undefined \/ config.retry_policy[1].retry_delay_ms = Undefined
  THEN 1000
  ELSE config.retry_policy[1].retry_delay_ms[1]

C33_OneDelayBetweenAttempts ==
  /\ \A k \in 1..Len(retryWaits) : retryWaits[k] = DelayOfPolicy
  /\ retryPc = "executing" => Len(retryWaits) = Len(retryTrace)
  /\ retryPc = "sleeping" => Len(retryWaits) = Len(retryTrace)
  /\ (retryPc = "returned" /\ retryTrace # <<>>) =>
       /\ Len(retryWaits) = Len(retryTrace) - 1
       /\ retryDuration = Some(retryClock)
       /\ retryDuration[1] >= (Len(retryTrace) - 1) * DelayOfPolicy

C33_Witness ==
  /\ retryPc = "returned"
  /\ config.retry_policy = Undefined
  /\ Len(retryTrace) = 3
  /\ retryResult[1].status = "completed"
  /\ retryWaits = <<1000, 1000>>
  /\ retryDuration = Some(2253)

\* A path lies inside a directory when, with its "." and ".." segments
\* resolved, it is absolute and the segments of the directory are the first
\* of its own.
ResolvedSegments(p) == NormalizeFrom(Segments(p), 1, <<>>, TRUE)
LiesInside(p, dir) ==
  LET ps == ResolvedSegments(p)
      ds == ResolvedSegments(dir)
  IN  /\ isAbsolute(p)
      /\ Len(ps) > Len(ds)
      /\ SubSeq(ps, 1, Len(ds)) = ds

\* C34 (as claimed): without allowAnyPath, every path that resolveOutputPath
\* returns for a job, and that the job's executor is handed, lies inside
\* output_dir.
C34_OutputPathsInsideOutputDir ==
  \A i \in 1..Len(config.jobs) :
    ( /\ cliPc = "executing"
      /\ ~options.allowAnyPath
      /\ pc[i] = "executing"
      /\ files = {} ) =>
      LiesInside(uniquePath[i], OutputDir)

\* The callers that hold a permit (Waiting: those inside a pending acquire()).
Holding == {c \in Callers : holder[c] = "holding"}

SemCounts(cap) ==
  /\ limiter.permits \in 0..cap
  /\ limiter.permits + Cardinality(Holding) = cap
  /\ (Waiting # {} \/ limiter.queue # <<>>) => limiter.permits = 0

\* C35: a Semaphore created with cap >= 1 permits has, in every reachable
\* state, a free-permit count between 0 and cap; the count plus the number
\* of callers holding a permit is cap; and callers wait only while the count
\* is 0.
C35_SemaphoreCounts ==
  \A cap \in 1..MaxCap :
    (limiter = [permits |-> cap, queue |-> <<>>]) => [](SemCounts(cap))

\* Two callers hold the permits, one of them woken by a release, and one
\* waits.
C35_Witness ==
  /\ limiter.permits = 0
  /\ Len(limiter.queue) = 1
  /\ Cardinality(Holding) = 2
  /\ Cardinality(Waiting) = 1
  /\ Len(granted) = 3

\* Job i has an outcome in the shared result collection.
HasOutcome(i) == \E k \in 1..Len(results) : results[k].index = i

\* Every task has left the limiter behind: it was admitted and has ended.
EveryTaskEnds == <>(\A i \in Jobs : HasEnded(pc[i]))

\* C36 (as claimed): when every executor call settles, every job task is
\* eventually admitted by the limiter and records an outcome.
C36_EveryTaskRecordsOutcome ==
  <>(\A i \in Jobs : HasEnded(pc[i]) /\ HasOutcome(i))

\* The outcomes of a sequence as a bag.
OutcomeBag(res) ==
  [o \in {res[k] : k \in 1..Len(res)} |->
     Cardinality({k \in 1..Len(res) : res[k] = o})]

\* C37: when every job task has settled before the deadline timer fires, the
\* returned report holds exactly the outcomes the tasks recorded, all of them
\* `completed` or `failed` and none `cancelled`; and the timer firing after
\* the return changes nothing in the report.
C37_NoCancelledWhenAllSettleInTime ==
  [][/\ (Returns /\ ~timedOut) =>
          /\ AllDone
          /\ OutcomeBag(results') = OutcomeBag(results)
          /\ \A k \in 1..Len(results') :
               results'[k].status \in {"completed", "failed"}
          /\ report'[1].cancelled = 0
          /\ report'[1].succeeded + report'[1].failed = N
     /\ (mainPc = "returned" /\ timerArmed /\ ~timerArmed') =>
          /\ results' = results
          /\ report' = report
          /\ mainPc' = "returned"
          /\ thrown' = thrown]_vars

\* A batch of two jobs, one completed and one failed, has returned; the
\* timer is still to fire.
C37_Witness ==
  /\ mainPc = "returned"
  /\ timerArmed
  /\ ~timedOut
  /\ N = 2
  /\ report[1].succeeded = 1
  /\ report[1].failed = 1
  /\ results[1].status = "failed"
  /\ results[2].status = "completed"

\* C38: a job task appends to the shared result collection only while it
\* holds its permit and ends with that step, so at most once; what it
\* appends carries its own index and prompt; and a `completed` or `failed`
\* outcome for index i exists only when job i's executor was called.
C38_OneOwnOutcomePerTask ==
  [][/\ (~Returns /\ results' # results) =>
          /\ Len(results') = Len(results) + 1
          /\ SubSeq(results', 1, Len(results)) = results
          /\ LET o == results'[Len(results')]
             IN  /\ o.index \in Jobs
                 /\ o.prompt = config.jobs[o.index].prompt
                 /\ HoldsPermit(pc[o.index])
                 /\ pc'[o.index] = "done"
     /\ \A i \in Jobs : pc[i] = "done" => pc'[i] = "done"
     /\ \A k \in 1..Len(results') :
          results'[k].status \in {"completed", "failed"} =>
            calls'[results'[k].index] >= 1]_vars

\* Both tasks of a batch have recorded their outcomes, job 2 first.
C38_Witness ==
  /\ mainPc = "racing"
  /\ N = 2
  /\ Len(results) = 2
  /\ results[1].index = 2
  /\ results[1].prompt = JobPrompt(2)
  /\ results[1].status = "completed"
  /\ results[2].index = 1
  /\ results[2].prompt = JobPrompt(1)
  /\ results[2].status = "failed"
  /\ calls = <<2, 1>>

\* The stages a call has passed.
Passed(stage) == \E k \in 1..Len(genTrace) : genTrace[k] = stage

\* C39: generateVideo and remixVideo never reject; a call that has ended
\* has resolved with a result, which after a failure at any stage is
\* { success: false, error: the message }; success = true is returned only
\* after polling reported completion and, when an output path was given,
\* after the file was written.
C39_ExecutorNeverRejects ==
  /\ genPc # "rejected"
  /\ genPc = "resolved" <=> genResult # Undefined
  /\ genResult # Undefined =>
       IF genResult[1].success
       THEN /\ Passed("completed")
            /\ Truthy(genParams[1].output_path) => Passed("written")
       ELSE /\ genResult[1].error # ""
            /\ ~Passed("written")

\* A remix with an output path has resolved with success after its file
\* was written.
C39_Witness ==
  /\ genPc = "resolved"
  /\ genParams[1].callee = "remixVideo"
  /\ Truthy(genParams[1].output_path)
  /\ genTrace = <<"validated", "path", "submitted", "completed",
                  "downloaded", "written">>
  /\ genResult = Some(VideoResult(TRUE, "", "video_2"))

\* The status requests a call has sent so far.
PollRequests == Len(pollTrace) + (IF pollPc = "request" THEN 1 ELSE 0)

\* C40: one pollVideoResult call sends at most maxAttempts status requests
\* and then ends, by returning a completed response or by raising an error;
\* a status still pending at the last attempt raises the timed-out error
\* with no further wait; and the call does not go on for ever.
C40_PollingIsBounded ==
  /\ [](/\ PollRequests <= pollMax
        /\ pollPc = "sleep" => pollAttempt < pollMax
        /\ pollPc = "settled" =>
             /\ pollOutcome # Undefined
             /\ ~pollOutcome[1].threw => isCompleted(pollOutcome[1].value))
  /\ [][(/\ pollPc = "request"
         /\ pollAttempt = pollMax
         /\ pollTrace'[Len(pollTrace')].http = 200
         /\ isPending(pollTrace'[Len(pollTrace')].status)) =>
          /\ pollPc' = "settled"
          /\ pollOutcome' =
               PollThrow(PollTimeoutMessage(pollMax, DefaultPollInterval))]_vars
  /\ <>(pollPc = "settled")

\* A call with the largest maxAttempts has timed out after as many pending
\* answers.
C40_Witness ==
  /\ pollMax = MaxPollAttempts
  /\ pollPc = "settled"
  /\ Len(pollTrace) = pollMax
  /\ \A k \in 1..pollMax : pollTrace[k] = PollAnswer(200, "in_progress")
  /\ pollOutcome = PollThrow(PollTimeoutMessage(pollMax, DefaultPollInterval))

====
